---- MODULE Spec2Model ----
(***************************************************************************)
(* Model of the in-memory filesystem of chicon (src/src/mem.rs).           *)
(*                                                                         *)
(* A path is the sequence of its components (what PathBuf::iter yields).   *)
(* A directory node is a value nested in its parent's children mapping;    *)
(* a file node (Rc<RefCell<MemFileInternal>>) is a cell of the heap        *)
(* `files`, because handles (MemFile clones) alias it and outlive the      *)
(* tree entry.                                                             *)
(*                                                                         *)
(* Two further components have a specification of their own: the S3        *)
(* backend (src/src/s3.rs, SpecS3), whose object store is a set of keys,   *)
(* and the SSH file handle (src/src/ssh.rs, SpecSSH).                      *)
(***************************************************************************)
EXTENDS Integers, Sequences, FiniteSets, TLC

VARIABLES
    root,     \* MemFileSystem.children: segment -> entry
    files,    \* heap of MemFileInternal cells, indexed by cell id
    handles,  \* the caller's MemFile handles: slot -> [rc, path, stale]
    last,     \* the most recent call: operation, path, result
    steps,    \* number of calls made so far
    s3_objects,   \* the bucket: the set of keys stored in it
    s3_requests,  \* the requests sent to the object store so far
    s3_last,      \* the most recent S3FileSystem call: operation, paths, result
    ssh_file,     \* an SSHFile: content, offset, bytes_read
    ssh_last      \* the most recent SSHFile call: operation, result, bytes

mem_vars == <<root, files, handles, last>>
s3_vars == <<s3_objects, s3_requests, s3_last>>
ssh_vars == <<ssh_file, ssh_last>>
vars == <<root, files, handles, last, steps, s3_objects, s3_requests, s3_last,
          ssh_file, ssh_last>>

----------------------------------------------------------------------------
(* Bounds *)

MaxPathLen == 3
MaxOps == 3
MaxFiles == 2
NumHandles == 2
MaxContent == 2

Segs == {"a", "b"}
Bytes == {1, 2}

Paths == UNION {[1..n -> Segs] : n \in 0..MaxPathLen}
Buffers == UNION {[1..n -> Bytes] : n \in 1..MaxContent}
\* One cell more than the files the caller may keep alive, so that a call made
\* in any reachable state finds an address for the file it creates.
FileIds == 1..(MaxFiles + 1)
Slots == 1..NumHandles

----------------------------------------------------------------------------
(* Entries *)

EmptyMap == [s \in {} |-> 0]

Put(m, k, v) == [s \in (DOMAIN m) \cup {k} |-> IF s = k THEN v ELSE m[s]]

Del(m, k) == [s \in (DOMAIN m) \ {k} |-> m[s]]

\* MemDirEntry::Directory(MemDirectory(Rc<RefCell<MemDirectoryInternal>>));
\* `some` is the discriminant of children: Option<HashMap<..>>.
MemDirectoryInternal(name, complete_path, some, children) ==
    [type |-> "Directory", rc |-> 0, name |-> name,
     complete_path |-> complete_path, some |-> some, children |-> children]

\* MemDirEntry::File(MemFile(rc)): the entry holds the cell's reference.
MemFile(rc) ==
    [type |-> "File", rc |-> rc, name |-> "",
     complete_path |-> <<>>, some |-> FALSE, children |-> EmptyMap]

\* Option::None for an Option<MemDirEntry>.
NoEntry ==
    [type |-> "None", rc |-> 0, name |-> "",
     complete_path |-> <<>>, some |-> FALSE, children |-> EmptyMap]

MemFileInternal(name, complete_path, content) ==
    [live |-> TRUE, name |-> name, complete_path |-> complete_path,
     content |-> content]

\* A cell no Rc refers to.
FreeCell ==
    [live |-> FALSE, name |-> "", complete_path |-> <<>>, content |-> <<>>]

NoHandle == [rc |-> 0, path |-> <<>>, stale |-> FALSE]

----------------------------------------------------------------------------
(* Path resolution *)

RECURSIVE MemDirEntry_get_from_relative_path(_, _, _)
RECURSIVE MemDirectory_get_from_relative_path(_, _, _)

MemDirEntry_get_from_relative_path(entry, fs, path) ==
    IF path = <<>> THEN entry
    ELSE IF entry.type = "File"
         THEN IF fs[entry.rc].name = Head(path) THEN entry ELSE NoEntry
         ELSE IF entry.name = Head(path) THEN entry
              ELSE MemDirectory_get_from_relative_path(entry, fs, path)

MemDirectory_get_from_relative_path(dir, fs, path) ==
    IF path = <<>> THEN NoEntry
    ELSE IF ~dir.some THEN NoEntry
    ELSE IF Head(path) \notin DOMAIN dir.children THEN NoEntry
    ELSE MemDirEntry_get_from_relative_path(dir.children[Head(path)], fs, Tail(path))

MemFileSystem_get_from_relative_path(rt, fs, path) ==
    IF DOMAIN rt = {} THEN NoEntry
    ELSE IF path = <<>> THEN NoEntry
    ELSE IF Head(path) \notin DOMAIN rt THEN NoEntry
    ELSE MemDirEntry_get_from_relative_path(rt[Head(path)], fs, Tail(path))

\* DirEntry::path of an entry: a directory answers its name, a file its
\* complete_path.
MemDirEntry_path(entry, fs) ==
    IF entry.type = "Directory" THEN <<entry.name>>
    ELSE fs[entry.rc].complete_path

MemDirEntry_file_type(entry) == entry.type

----------------------------------------------------------------------------
(* Insertion of a file *)

\* Rc::new(RefCell::new(cell)) at the address `fresh` (0: no address left).
RcNew(fs, fresh, cell) ==
    IF fresh \in DOMAIN fs THEN [fs EXCEPT ![fresh] = cell] ELSE fs

\* Result of a call on a directory node: the node as the call left it.
DirResult(res, node, fs, h) == [res |-> res, node |-> node, files |-> fs, h |-> h]

\* Result of a call on the filesystem.
FsResult(res, rt, fs, h) == [res |-> res, root |-> rt, files |-> fs, h |-> h]

Ok(r) == r.res = "Ok"

\* The first n components of a path, and Path::parent.
Prefix(path, n) == SubSeq(path, 1, n)

Parent(path) == Prefix(path, Len(path) - 1)

RECURSIVE MemDirectory_insert_file(_, _, _, _, _)

MemDirectory_insert_file(dir, fs, path, complete_path, fresh) ==
    LET self == IF dir.some THEN dir ELSE [dir EXCEPT !.some = TRUE] IN
    IF path = <<>> THEN DirResult("BadPath", self, fs, 0)
    ELSE
    LET current_path == Head(path)
        rest == Tail(path)
    IN  IF current_path \in DOMAIN self.children
        THEN LET entry == self.children[current_path] IN
             IF entry.type = "Directory"
             THEN LET r == MemDirectory_insert_file(entry, fs, rest, complete_path, fresh)
                  IN  DirResult(r.res,
                                [self EXCEPT !.children[current_path] = r.node],
                                r.files, r.h)
             ELSE DirResult("Ok", self, fs, entry.rc)
        ELSE IF rest # <<>>
             THEN DirResult("MemDirNotFound", self, fs, 0)
             ELSE DirResult("Ok",
                            [self EXCEPT !.children =
                                Put(self.children, current_path, MemFile(fresh))],
                            RcNew(fs, fresh,
                                MemFileInternal(current_path, complete_path, <<>>)),
                            fresh)

MemFileSystem_insert_file(rt, fs, path, fresh) ==
    IF path = <<>> THEN FsResult("BadPath", rt, fs, 0)
    ELSE
    LET current_path == Head(path)
        rest == Tail(path)
    IN  IF current_path \in DOMAIN rt
        THEN LET entry == rt[current_path] IN
             IF entry.type = "Directory"
             THEN LET r == MemDirectory_insert_file(entry, fs, rest, path, fresh)
                  IN  FsResult(r.res, [rt EXCEPT ![current_path] = r.node],
                               r.files, r.h)
             ELSE FsResult("Ok", rt, fs, entry.rc)
        ELSE IF rest # <<>>
             THEN FsResult("MemDirNotFound", rt, fs, 0)
             ELSE FsResult("Ok",
                           Put(rt, current_path, MemFile(fresh)),
                           RcNew(fs, fresh,
                               MemFileInternal(current_path, path, <<>>)),
                           fresh)

----------------------------------------------------------------------------
(* Insertion of a directory *)

RECURSIVE MemDirectory_insert_dir(_, _, _, _)

MemDirectory_insert_dir(dir, path, complete_path, force) ==
    LET self == IF dir.some THEN dir ELSE [dir EXCEPT !.some = TRUE] IN
    IF path = <<>> THEN [res |-> "BadPath", node |-> self]
    ELSE
    LET current_path == Head(path)
        rest == Tail(path)
    IN  IF current_path \in DOMAIN self.children
        THEN LET entry == self.children[current_path] IN
             IF entry.type = "Directory"
             THEN IF rest # <<>>
                  THEN LET r == MemDirectory_insert_dir(entry, rest, complete_path, force)
                       IN  [res |-> r.res,
                            node |-> [self EXCEPT !.children[current_path] = r.node]]
                  ELSE [res |-> "Ok", node |-> self]
             ELSE [res |-> "BadPath", node |-> self]
        ELSE IF rest # <<>>
             THEN IF force
                  THEN LET new == MemDirectoryInternal(current_path, complete_path,
                                                       FALSE, EmptyMap)
                           r == MemDirectory_insert_dir(new, rest, complete_path, force)
                       IN  IF r.res # "Ok"
                           THEN [res |-> r.res, node |-> self]
                           ELSE [res |-> "Ok",
                                 node |-> [self EXCEPT !.children =
                                     Put(self.children, current_path, r.node)]]
                  ELSE [res |-> "MemDirNotFound", node |-> self]
             ELSE [res |-> "Ok",
                   node |-> [self EXCEPT !.children =
                       Put(self.children, current_path,
                           MemDirectoryInternal(current_path, complete_path,
                                                FALSE, EmptyMap))]]

MemFileSystem_insert_dir(rt, fs, path, force) ==
    IF path = <<>> THEN FsResult("BadPath", rt, fs, 0)
    ELSE
    LET current_path == Head(path)
        rest == Tail(path)
    IN  IF current_path \in DOMAIN rt
        THEN LET entry == rt[current_path] IN
             IF entry.type = "Directory"
             THEN IF rest # <<>>
                  THEN LET r == MemDirectory_insert_dir(entry, rest, path, force)
                       IN  FsResult(r.res, [rt EXCEPT ![current_path] = r.node], fs, 0)
                  ELSE FsResult("Ok", rt, fs, 0)
             ELSE FsResult("BadPath", rt, fs, 0)
        ELSE IF rest # <<>>
             THEN IF force
                  THEN LET new == MemDirectoryInternal(current_path, path,
                                                       FALSE, EmptyMap)
                           r == MemDirectory_insert_dir(new, rest, path, force)
                       IN  IF r.res # "Ok"
                           THEN FsResult(r.res, rt, fs, 0)
                           ELSE FsResult("Ok", Put(rt, current_path, r.node), fs, 0)
                  ELSE FsResult("MemDirNotFound", rt, fs, 0)
             ELSE FsResult("Ok",
                           Put(rt, current_path,
                               MemDirectoryInternal(current_path, path,
                                                    FALSE, EmptyMap)),
                           fs, 0)

----------------------------------------------------------------------------
(* Removal *)

RECURSIVE MemDirectory_remove(_, _, _, _)

\* MemDirEntry::remove dispatches on the entry's variant.
MemDirEntry_remove(entry, path, entry_type, force) ==
    IF entry.type = "File" THEN [res |-> "BadPath", node |-> entry]
    ELSE MemDirectory_remove(entry, path, entry_type, force)

MemDirectory_remove(dir, path, entry_type, force) ==
    IF path = <<>> THEN [res |-> "BadPath", node |-> dir]
    ELSE IF ~dir.some THEN [res |-> "BadPath", node |-> dir]
    ELSE
    LET current_path == Head(path)
        rest == Tail(path)
    IN  IF current_path \in DOMAIN dir.children
        THEN LET child_entry == dir.children[current_path] IN
             IF rest # <<>>
             THEN LET r == MemDirEntry_remove(child_entry, rest, entry_type, force)
                  IN  [res |-> r.res,
                       node |-> [dir EXCEPT !.children[current_path] = r.node]]
             ELSE IF /\ child_entry.type = "Directory"
                     /\ child_entry.some
                     /\ DOMAIN child_entry.children # {}
                     /\ ~force
                  THEN [res |-> "MemDirNotFound", node |-> dir]
                  ELSE [res |-> "Ok",
                        node |-> [dir EXCEPT !.children =
                                     Del(dir.children, current_path)]]
        ELSE [res |-> "BadPath", node |-> dir]

\* Mutant: the entry is taken out of the mapping before the check that a
\* directory removed without force is empty.
MemFileSystem_remove_then_check(rt, fs, path, entry_type, force) ==
    IF DOMAIN rt = {}
    THEN FsResult(IF entry_type = "File" THEN "MemFileNotFound"
                  ELSE "MemDirNotFound", rt, fs, 0)
    ELSE IF path = <<>> THEN FsResult("BadPath", rt, fs, 0)
    ELSE
    LET current_path == Head(path)
        rest == Tail(path)
    IN  IF current_path \in DOMAIN rt
        THEN LET child_entry == rt[current_path] IN
             IF rest # <<>>
             THEN LET r == MemDirEntry_remove(child_entry, rest, entry_type, force)
                  IN  FsResult(r.res, [rt EXCEPT ![current_path] = r.node], fs, 0)
             ELSE IF MemDirEntry_file_type(child_entry) = entry_type
                  THEN IF /\ child_entry.type = "Directory"
                          /\ child_entry.some
                          /\ DOMAIN child_entry.children # {}
                          /\ ~force
                       THEN FsResult("MemDirNotEmpty", Del(rt, current_path), fs, 0)
                       ELSE FsResult("Ok", Del(rt, current_path), fs, 0)
                  ELSE FsResult("BadPath", rt, fs, 0)
        ELSE FsResult("BadPath", rt, fs, 0)

MemFileSystem_remove(rt, fs, path, entry_type, force) ==
    IF DOMAIN rt = {}
    THEN FsResult(IF entry_type = "File" THEN "MemFileNotFound"
                  ELSE "MemDirNotFound", rt, fs, 0)
    ELSE IF path = <<>> THEN FsResult("BadPath", rt, fs, 0)
    ELSE
    LET current_path == Head(path)
        rest == Tail(path)
    IN  IF current_path \in DOMAIN rt
        THEN LET child_entry == rt[current_path] IN
             IF rest # <<>>
             THEN LET r == MemDirEntry_remove(child_entry, rest, entry_type, force)
                  IN  FsResult(r.res, [rt EXCEPT ![current_path] = r.node], fs, 0)
             ELSE IF MemDirEntry_file_type(child_entry) = entry_type
                  THEN IF /\ child_entry.type = "Directory"
                          /\ child_entry.some
                          /\ DOMAIN child_entry.children # {}
                          /\ ~force
                       THEN FsResult("MemDirNotEmpty", rt, fs, 0)
                       ELSE FsResult("Ok", Del(rt, current_path), fs, 0)
                  ELSE FsResult("BadPath", rt, fs, 0)
        ELSE FsResult("BadPath", rt, fs, 0)

----------------------------------------------------------------------------
(* Rename *)

\* Mutant: the entry is stored under the new key and left under the old one.
Replace_keeping(children, fs, current_path, current_new_path, complete_path) ==
    LET entry == children[current_path] IN
    IF entry.type = "Directory"
    THEN [children |-> Put(children, current_new_path,
                           [entry EXCEPT !.complete_path = complete_path]),
          files |-> fs]
    ELSE [children |-> Put(children, current_new_path, entry),
          files |-> [fs EXCEPT ![entry.rc].complete_path = complete_path]]

\* The "replace" arm shared by both levels: the entry's complete_path is
\* set, the old key removed and the entry stored under the new key.
Replace(children, fs, current_path, current_new_path, complete_path) ==
    LET entry == children[current_path] IN
    IF entry.type = "Directory"
    THEN [children |-> Put(Del(children, current_path), current_new_path,
                           [entry EXCEPT !.complete_path = complete_path]),
          files |-> fs]
    ELSE [children |-> Put(Del(children, current_path), current_new_path, entry),
          files |-> [fs EXCEPT ![entry.rc].complete_path = complete_path]]

RECURSIVE MemDirectory_rename(_, _, _, _, _)

\* MemDirEntry::rename dispatches on the entry's variant.
MemDirEntry_rename(entry, fs, path, new_path, complete_path) ==
    IF entry.type = "File" THEN DirResult("BadPath", entry, fs, 0)
    ELSE MemDirectory_rename(entry, fs, path, new_path, complete_path)

MemDirectory_rename(dir, fs, path, new_path, complete_path) ==
    IF path = <<>> THEN DirResult("BadPath", dir, fs, 0)
    ELSE IF new_path = <<>> THEN DirResult("BadPath", dir, fs, 0)
    ELSE IF ~dir.some THEN DirResult("BadPath", dir, fs, 0)
    ELSE
    LET current_path == Head(path)
        current_new_path == Head(new_path)
    IN  IF current_path \in DOMAIN dir.children
        THEN IF Tail(path) # <<>>
             THEN LET r == MemDirEntry_rename(dir.children[current_path], fs,
                                              Tail(path), Tail(new_path), complete_path)
                  IN  DirResult(r.res,
                                [dir EXCEPT !.children[current_path] = r.node],
                                r.files, 0)
             ELSE LET r == Replace(dir.children, fs, current_path,
                                   current_new_path, complete_path)
                  IN  DirResult("Ok", [dir EXCEPT !.children = r.children],
                                r.files, 0)
        ELSE DirResult("BadPath", dir, fs, 0)

MemFileSystem_rename_internal(rt, fs, path, new_path) ==
    IF DOMAIN rt = {} THEN FsResult("BadPath", rt, fs, 0)
    ELSE IF path = <<>> THEN FsResult("BadPath", rt, fs, 0)
    ELSE IF new_path = <<>> THEN FsResult("BadPath", rt, fs, 0)
    ELSE
    LET current_path == Head(path)
        current_new_path == Head(new_path)
    IN  IF current_path \in DOMAIN rt
        THEN IF Tail(path) # <<>>
             THEN LET r == MemDirEntry_rename(rt[current_path], fs, Tail(path),
                                              Tail(new_path), new_path)
                  IN  FsResult(r.res, [rt EXCEPT ![current_path] = r.node],
                               r.files, 0)
             ELSE LET r == Replace(rt, fs, current_path, current_new_path, new_path)
                  IN  FsResult("Ok", r.children, r.files, 0)
        ELSE FsResult("BadPath", rt, fs, 0)


----------------------------------------------------------------------------
(* File handles: impl Read / Write / File for MemFile *)

Min(x, y) == IF x <= y THEN x ELSE y

\* <&[u8] as Read>::read: the first min(n, len) bytes are copied out.
SliceRead(content, n) == SubSeq(content, 1, Min(n, Len(content)))

\* Mutant: read takes the bytes from the end of the content.
MemFile_read_from_end(fs, rc, n) ==
    LET cloned_content == fs[rc].content
        nb == Min(n, Len(cloned_content))
    IN  [out |-> SubSeq(cloned_content, Len(cloned_content) - nb + 1,
                        Len(cloned_content)),
         files |-> [fs EXCEPT ![rc].content =
                       SubSeq(cloned_content, 1, Len(cloned_content) - nb)]]

\* Read::read with a buffer of n bytes: the bytes copied out, and the cell
\* with its content replaced by what the slice reader had left.
MemFile_read(fs, rc, n) ==
    LET cloned_content == fs[rc].content
        nb == Len(SliceRead(cloned_content, n))
    IN  [out |-> SliceRead(cloned_content, n),
         files |-> [fs EXCEPT ![rc].content =
                       SubSeq(cloned_content, nb + 1, Len(cloned_content))]]

\* Write::write: Vec<u8>::write appends the whole buffer.
MemFile_write(fs, rc, buf) ==
    [fs EXCEPT ![rc].content = fs[rc].content \o buf]

\* Mutant: sync_all hands the content over to a backing store and empties it.
MemFile_sync_all_draining(fs, rc) == [fs EXCEPT ![rc].content = <<>>]

\* File::sync_all: Ok(()) and nothing else.
MemFile_sync_all(fs, rc) == fs

----------------------------------------------------------------------------
(* Filesystem facade: impl FileSystem for MemFileSystem *)

\* Mutant: create_file makes the missing directories above the file.
create_file_mkdirs(rt, fs, path, fresh) ==
    LET d == MemFileSystem_insert_dir(rt, fs, Parent(path), TRUE) IN
    IF Len(path) >= 2 /\ Ok(d)
    THEN MemFileSystem_insert_file(d.root, d.files, path, fresh)
    ELSE MemFileSystem_insert_file(rt, fs, path, fresh)

\* Mutant: create_file truncates the file it returns, as File::create does.
create_file_truncating(rt, fs, path, fresh) ==
    LET r == MemFileSystem_insert_file(rt, fs, path, fresh) IN
    IF Ok(r) /\ r.h \in DOMAIN r.files
    THEN [r EXCEPT !.files[r.h].content = <<>>]
    ELSE r

create_file(rt, fs, path, fresh) == MemFileSystem_insert_file(rt, fs, path, fresh)

\* Mutant: create_dir refuses a path that already holds an entry.
create_dir_exclusive(rt, fs, path) ==
    IF path # <<>> /\ MemFileSystem_get_from_relative_path(rt, fs, path).type # "None"
    THEN FsResult("BadPath", rt, fs, 0)
    ELSE MemFileSystem_insert_dir(rt, fs, path, FALSE)

\* Mutant: create_dir passes force = true.
create_dir_forced(rt, fs, path) == MemFileSystem_insert_dir(rt, fs, path, TRUE)

create_dir(rt, fs, path) == MemFileSystem_insert_dir(rt, fs, path, FALSE)

\* Mutant: create_dir_all passes force = false.
create_dir_all_unforced(rt, fs, path) ==
    MemFileSystem_insert_dir(rt, fs, path, FALSE)

\* Mutant: create_dir_all refuses a path that already holds an entry.
create_dir_all_exclusive(rt, fs, path) ==
    IF path # <<>> /\ MemFileSystem_get_from_relative_path(rt, fs, path).type # "None"
    THEN FsResult("BadPath", rt, fs, 0)
    ELSE MemFileSystem_insert_dir(rt, fs, path, TRUE)

\* Mutant: create_dir_all replaces a File that holds the path.
create_dir_all_over_file(rt, fs, path) ==
    LET d == MemFileSystem_remove(rt, fs, path, "File", FALSE) IN
    IF Ok(d) THEN MemFileSystem_insert_dir(d.root, d.files, path, TRUE)
    ELSE MemFileSystem_insert_dir(rt, fs, path, TRUE)

create_dir_all(rt, fs, path) == MemFileSystem_insert_dir(rt, fs, path, TRUE)

\* Mutant: open_file truncates the file it opens.
open_file_truncating(rt, fs, path) ==
    LET entry == MemFileSystem_get_from_relative_path(rt, fs, path) IN
    IF entry.type = "File"
    THEN FsResult("Ok", rt, [fs EXCEPT ![entry.rc].content = <<>>], entry.rc)
    ELSE FsResult("MemFileNotFound", rt, fs, 0)

open_file(rt, fs, path) ==
    LET entry == MemFileSystem_get_from_relative_path(rt, fs, path) IN
    IF entry.type = "File" THEN FsResult("Ok", rt, fs, entry.rc)
    ELSE FsResult("MemFileNotFound", rt, fs, 0)

\* The Vec<MemDirEntry> of read_dir as the set of its (key, entry) pairs;
\* the order of a HashMap's iteration is not modelled.
read_dir(rt, fs, path) ==
    LET entry == MemFileSystem_get_from_relative_path(rt, fs, path) IN
    IF entry.type = "Directory"
    THEN [res |-> "Ok", root |-> rt, files |-> fs,
          entries |-> IF entry.some
                      THEN {<<s, entry.children[s]>> : s \in DOMAIN entry.children}
                      ELSE {}]
    ELSE [res |-> "MemFileNotFound", root |-> rt, files |-> fs, entries |-> {}]

remove_file(rt, fs, path) == MemFileSystem_remove(rt, fs, path, "File", FALSE)

remove_dir(rt, fs, path) == MemFileSystem_remove(rt, fs, path, "Directory", FALSE)

\* Mutant: remove_dir_all passes force = false.
remove_dir_all_unforced(rt, fs, path) ==
    MemFileSystem_remove(rt, fs, path, "Directory", FALSE)

remove_dir_all(rt, fs, path) == MemFileSystem_remove(rt, fs, path, "Directory", TRUE)

rename(rt, fs, from, to) == MemFileSystem_rename_internal(rt, fs, from, to)

----------------------------------------------------------------------------
(* Reference counting: a cell lives while the tree or a handle holds it *)

RECURSIVE EntryCells(_)

EntryCells(entry) ==
    IF entry.type = "File" THEN {entry.rc}
    ELSE UNION {EntryCells(entry.children[s]) : s \in DOMAIN entry.children}

TreeCells(rt) == UNION {EntryCells(rt[s]) : s \in DOMAIN rt}

HandleCells(hs) == {hs[k].rc : k \in Slots} \ {0}

\* Mutant: a cell is freed as soon as no entry of the tree refers to it.
DropCells_with_entry(rt, fs, hs) ==
    [i \in FileIds |-> IF i \in TreeCells(rt) THEN fs[i] ELSE FreeCell]

\* Rc::drop: a cell no entry and no handle refers to is freed.
DropCells(rt, fs, hs) ==
    [i \in FileIds |->
        IF i \in TreeCells(rt) \cup HandleCells(hs) THEN fs[i] ELSE FreeCell]

\* The cell Rc::new allocates: the lowest free one, 0 when the heap is full.
FreshCell(fs) ==
    IF \E i \in FileIds : ~fs[i].live
    THEN CHOOSE i \in FileIds : ~fs[i].live /\ \A j \in FileIds : j < i => fs[j].live
    ELSE 0

----------------------------------------------------------------------------
(* The caller: one action per call of the public interface *)

IsPrefix(p, q) == Len(p) <= Len(q) /\ SubSeq(q, 1, Len(p)) = p

\* What the caller keeps of a call: the operation, its (first) path, the
\* result, and whether it repeats the call before, which had succeeded.
Call(op, path, res) ==
    [op |-> op, path |-> path, res |-> res,
     again |-> last.op = op /\ last.path = path /\ last.res = "Ok"]

\* The handle a call returned is kept in slot h (h = 0: it is dropped at once).
Keep(hs, h, rc, path) ==
    IF h = 0 THEN hs
    ELSE [hs EXCEPT ![h] = [rc |-> rc, path |-> path, stale |-> FALSE]]

\* A remove or rename that named the handle's path, or an ancestor of it,
\* ends the period in which the handle is "a handle on that path".
Touch(hs, paths) ==
    [k \in Slots |->
        IF hs[k].rc # 0 /\ \E p \in paths : p # <<>> /\ IsPrefix(p, hs[k].path)
        THEN [hs[k] EXCEPT !.stale = TRUE]
        ELSE hs[k]]

Init ==
    /\ root = EmptyMap
    /\ files = [i \in FileIds |-> FreeCell]
    /\ handles = [k \in Slots |-> NoHandle]
    /\ last = [op |-> "new", path |-> <<>>, res |-> "Ok", again |-> FALSE]
    /\ steps = 0
    /\ s3_objects = {}
    /\ s3_requests = <<>>
    /\ s3_last = [op |-> "new", path |-> <<>>, to |-> <<>>, res |-> "Ok"]
    /\ ssh_file = [content |-> <<>>, offset |-> 0, bytes_read |-> 0]
    /\ ssh_last = [op |-> "new", res |-> "Ok", n |-> 0, bytes |-> <<>>]

CreateFile(path, h) ==
    /\ steps < MaxOps
    /\ LET r == create_file(root, files, path, FreshCell(files))
           hs == IF r.res = "Ok" THEN Keep(handles, h, r.h, path) ELSE handles
       IN  /\ Cardinality(TreeCells(r.root) \cup HandleCells(hs)) <= MaxFiles
           /\ root' = r.root
           /\ handles' = hs
           /\ files' = DropCells(r.root, r.files, hs)
           /\ last' = Call("create_file", path, r.res)
    /\ steps' = steps + 1
    /\ UNCHANGED <<s3_vars, ssh_vars>>

CreateDir(path) ==
    /\ steps < MaxOps
    /\ LET r == create_dir(root, files, path)
       IN  /\ root' = r.root
           /\ last' = Call("create_dir", path, r.res)
    /\ steps' = steps + 1
    /\ UNCHANGED <<s3_vars, ssh_vars>>
    /\ UNCHANGED <<files, handles>>

CreateDirAll(path) ==
    /\ steps < MaxOps
    /\ LET r == create_dir_all(root, files, path)
       IN  /\ root' = r.root
           /\ last' = Call("create_dir_all", path, r.res)
    /\ steps' = steps + 1
    /\ UNCHANGED <<s3_vars, ssh_vars>>
    /\ UNCHANGED <<files, handles>>

OpenFile(path, h) ==
    /\ steps < MaxOps
    /\ LET r == open_file(root, files, path)
           hs == IF r.res = "Ok" THEN Keep(handles, h, r.h, path) ELSE handles
       IN  /\ root' = r.root
           /\ handles' = hs
           /\ files' = DropCells(r.root, r.files, hs)
           /\ last' = Call("open_file", path, r.res)
    /\ steps' = steps + 1
    /\ UNCHANGED <<s3_vars, ssh_vars>>

ReadDir(path) ==
    /\ steps < MaxOps
    /\ LET r == read_dir(root, files, path)
       IN  /\ root' = r.root
           /\ files' = r.files
           /\ last' = Call("read_dir", path, r.res)
    /\ steps' = steps + 1
    /\ UNCHANGED <<s3_vars, ssh_vars>>
    /\ UNCHANGED handles

Remove(op, path) ==
    /\ steps < MaxOps
    /\ LET r == CASE op = "remove_file" -> remove_file(root, files, path)
                  [] op = "remove_dir" -> remove_dir(root, files, path)
                  [] op = "remove_dir_all" -> remove_dir_all(root, files, path)
           hs == IF r.res = "Ok" THEN Touch(handles, {path}) ELSE handles
       IN  /\ root' = r.root
           /\ handles' = hs
           /\ files' = DropCells(r.root, r.files, hs)
           /\ last' = Call(op, path, r.res)
    /\ steps' = steps + 1
    /\ UNCHANGED <<s3_vars, ssh_vars>>

RemoveFile(path) == Remove("remove_file", path)

RemoveDir(path) == Remove("remove_dir", path)

RemoveDirAll(path) == Remove("remove_dir_all", path)

Rename(from, to) ==
    /\ steps < MaxOps
    /\ LET r == rename(root, files, from, to)
           hs == IF r.res = "Ok" THEN Touch(handles, {from, to}) ELSE handles
       IN  /\ root' = r.root
           /\ handles' = hs
           /\ files' = DropCells(r.root, r.files, hs)
           /\ last' = Call("rename", from, r.res)
    /\ steps' = steps + 1
    /\ UNCHANGED <<s3_vars, ssh_vars>>

\* read with a buffer of n bytes through the handle in slot h
Read(h, n) ==
    /\ steps < MaxOps
    /\ handles[h].rc # 0
    /\ LET r == MemFile_read(files, handles[h].rc, n)
       IN  /\ files' = r.files
           /\ last' = Call("read", <<>>, "Ok")
    /\ steps' = steps + 1
    /\ UNCHANGED <<s3_vars, ssh_vars>>
    /\ UNCHANGED <<root, handles>>

Write(h, buf) ==
    /\ steps < MaxOps
    /\ handles[h].rc # 0
    /\ Len(files[handles[h].rc].content) + Len(buf) <= MaxContent
    /\ files' = MemFile_write(files, handles[h].rc, buf)
    /\ last' = Call("write", <<>>, "Ok")
    /\ steps' = steps + 1
    /\ UNCHANGED <<s3_vars, ssh_vars>>
    /\ UNCHANGED <<root, handles>>

SyncAll(h) ==
    /\ steps < MaxOps
    /\ handles[h].rc # 0
    /\ files' = MemFile_sync_all(files, handles[h].rc)
    /\ last' = Call("sync_all", <<>>, "Ok")
    /\ steps' = steps + 1
    /\ UNCHANGED <<s3_vars, ssh_vars>>
    /\ UNCHANGED <<root, handles>>

Next ==
    \/ \E path \in Paths, h \in {0} \cup Slots : CreateFile(path, h)
    \/ \E path \in Paths : CreateDir(path)
    \/ \E path \in Paths : CreateDirAll(path)
    \/ \E path \in Paths, h \in Slots : OpenFile(path, h)
    \/ \E path \in Paths : ReadDir(path)
    \/ \E path \in Paths : RemoveFile(path)
    \/ \E path \in Paths : RemoveDir(path)
    \/ \E path \in Paths : RemoveDirAll(path)
    \/ \E from \in Paths, to \in Paths : Rename(from, to)
    \/ \E h \in Slots, n \in 1..MaxContent : Read(h, n)
    \/ \E h \in Slots, buf \in Buffers : Write(h, buf)
    \/ \E h \in Slots : SyncAll(h)

Spec == Init /\ [][Next]_vars


----------------------------------------------------------------------------
(* What the claims speak of *)

\* Read::read_to_end as the tests use it: read with a buffer of n bytes
\* until a read returns nothing; the bytes gathered.
RECURSIVE ReadToEnd(_, _, _)

ReadToEnd(fs, rc, n) ==
    LET r == MemFile_read(fs, rc, n) IN
    IF r.out = <<>> THEN <<>> ELSE r.out \o ReadToEnd(r.files, rc, n)

\* The entry stored at a path, following children-mapping keys only.
RECURSIVE EntryAt(_, _)

EntryAt(entry, path) ==
    IF path = <<>> THEN entry
    ELSE IF entry.type # "Directory" \/ Head(path) \notin DOMAIN entry.children
         THEN NoEntry
         ELSE EntryAt(entry.children[Head(path)], Tail(path))

Lookup(rt, path) ==
    IF path = <<>> \/ Head(path) \notin DOMAIN rt THEN NoEntry
    ELSE EntryAt(rt[Head(path)], Tail(path))

----------------------------------------------------------------------------
(* C1 *)

\* C1: whenever create_file(P) has just returned success, resolving P
\* (get_from_relative_path, as open_file does) gives a File entry whose
\* path() is P.
C1_CreateThenResolve ==
    (last.op = "create_file" /\ last.res = "Ok") =>
        LET entry == MemFileSystem_get_from_relative_path(root, files, last.path)
        IN  /\ entry.type = "File"
            /\ MemDirEntry_path(entry, files) = last.path

----------------------------------------------------------------------------
(* C2 *)

\* C2: in every reachable state, for every path P and bytes B: if
\* create_file(P) succeeds, then writing B through the returned handle,
\* sync_all, open_file(P) and reading to the end gives exactly B.
C2_RoundTrip ==
    \A path \in Paths, buf \in Buffers :
        LET c == create_file(root, files, path, FreshCell(files)) IN
        (Ok(c) /\ c.h # 0) =>
            LET written == MemFile_sync_all(MemFile_write(c.files, c.h, buf), c.h)
                o == open_file(c.root, written, path)
            IN  /\ Ok(o)
                /\ \A n \in 1..MaxContent : ReadToEnd(written, o.h, n) = buf

----------------------------------------------------------------------------
(* C3 *)

\* A handle the caller holds on a path that no remove or rename has named
\* since the call that returned it.
OnPath(k) == handles[k].rc # 0 /\ ~handles[k].stale

\* C3: handles obtained by separate open_file / create_file calls on one
\* path, with no remove or rename of that path in between, are one storage
\* cell: two such handles held together, and a held handle and the handle a
\* further open_file or create_file on its path returns.
C3_SameCell ==
    \A k \in Slots :
        OnPath(k) =>
            /\ \A j \in Slots :
                   (OnPath(j) /\ handles[j].path = handles[k].path)
                       => handles[j].rc = handles[k].rc
            /\ LET o == open_file(root, files, handles[k].path)
               IN  Ok(o) => o.h = handles[k].rc
            /\ LET c == create_file(root, files, handles[k].path, FreshCell(files))
               IN  (Ok(c) /\ c.h # 0) => c.h = handles[k].rc

----------------------------------------------------------------------------
(* C4 *)

\* C4: a read through one handle does not change what another handle on
\* the same file reads afterwards.
C4_PrivateCursor ==
    \A k \in Slots, j \in Slots :
        (k # j /\ handles[k].rc # 0 /\ handles[j].rc = handles[k].rc) =>
            \A n \in 1..MaxContent :
                LET r == MemFile_read(files, handles[k].rc, n) IN
                ReadToEnd(r.files, handles[j].rc, MaxContent)
                    = ReadToEnd(files, handles[j].rc, MaxContent)


----------------------------------------------------------------------------
(* The observable tree *)

\* What is stored at a path: the kind of the entry the children mappings
\* hold there and, for a file, its content.
Stored(rt, fs, p) ==
    LET entry == Lookup(rt, p) IN
    [type |-> entry.type,
     content |-> IF entry.type = "File" THEN fs[entry.rc].content ELSE <<>>]

\* What the public interface answers for a path: what it resolves to
\* (kind, path(), content) and what read_dir lists there (key, path() and
\* kind of each entry).
Answered(rt, fs, p) ==
    LET entry == MemFileSystem_get_from_relative_path(rt, fs, p)
        listed == read_dir(rt, fs, p)
    IN  [type |-> entry.type,
         path |-> IF entry.type = "None" THEN <<>>
                  ELSE MemDirEntry_path(entry, fs),
         content |-> IF entry.type = "File" THEN fs[entry.rc].content
                     ELSE <<>>,
         read_dir |-> listed.res,
         entries |-> {<<x[1], MemDirEntry_path(x[2], fs),
                        MemDirEntry_file_type(x[2])>> : x \in listed.entries}]

\* The call whose result is r left the observable tree as it was: every
\* path stores and answers what it did.
Unchanged(r) ==
    \/ r.root = root /\ r.files = files
    \/ \A p \in Paths :
           /\ Stored(r.root, r.files, p) = Stored(root, files, p)
           /\ Answered(r.root, r.files, p) = Answered(root, files, p)

\* The caller may make another call (the guard of every action).
Running == steps < MaxOps

----------------------------------------------------------------------------
(* C5 *)

\* C5: in every state in which the caller can make a call, each of create_file, create_dir,
\* create_dir_all, remove_file, remove_dir, remove_dir_all and rename, on
\* any arguments, either succeeds or leaves the observable tree unchanged:
\* the same paths resolve, to the same kinds, with the same read_dir
\* listings and the same file contents.
C5_ErrorsChangeNothing ==
    Running =>
        /\ \A path \in Paths :
             \A r \in {create_file(root, files, path, FreshCell(files)),
                       create_dir(root, files, path),
                       create_dir_all(root, files, path),
                       remove_file(root, files, path),
                       remove_dir(root, files, path),
                       remove_dir_all(root, files, path)} :
                 ~Ok(r) => Unchanged(r)
        /\ \A from \in Paths, to \in Paths :
             LET r == rename(root, files, from, to) IN ~Ok(r) => Unchanged(r)

\* create_dir has just failed below an existing directory, for want of
\* the directory in between.
C5_Witness ==
    /\ last.op = "create_dir"
    /\ last.res = "MemDirNotFound"
    /\ Len(last.path) = 3
    /\ Lookup(root, Prefix(last.path, 1)).type = "Directory"
    /\ Lookup(root, Prefix(last.path, 2)).type = "None"

----------------------------------------------------------------------------
(* C6 *)

\* No prefix of the path (the path included) is a File.
NoFilePrefix(rt, path) ==
    \A i \in 1..Len(path) : Lookup(rt, Prefix(path, i)).type # "File"

\* A proper prefix of the path does not exist: the walk along the path
\* reaches, through directories, a segment that is absent before the last.
MissingPrefix(rt, path) ==
    /\ Len(path) >= 2
    /\ NoFilePrefix(rt, path)
    /\ Lookup(rt, Parent(path)).type = "None"

\* C6: in every state in which the caller can make a call, for every path P with a proper prefix
\* that does not exist, create_file(P) fails with MemDirNotFound and leaves
\* the observable tree unchanged; and after create_dir_all of P's parent
\* the same create_file(P) succeeds and P holds a File.
C6_CreateFileNeedsParent ==
    \A path \in Paths :
        (Running /\ MissingPrefix(root, path)) =>
            LET c == create_file(root, files, path, FreshCell(files))
                d == create_dir_all(root, files, Parent(path))
                again == create_file(d.root, d.files, path, FreshCell(files))
            IN  /\ c.res = "MemDirNotFound"
                /\ Unchanged(c)
                /\ Ok(d)
                /\ Ok(again)
                /\ Lookup(again.root, path).type = "File"
                /\ \A q \in Paths :
                       Lookup(d.root, q).type # "None"
                           => Lookup(again.root, q).type = Lookup(d.root, q).type

\* create_file has just failed below an existing directory, for want of
\* the directory in between.
C6_Witness ==
    /\ last.op = "create_file"
    /\ last.res = "MemDirNotFound"
    /\ MissingPrefix(root, last.path)
    /\ Lookup(root, Prefix(last.path, 1)).type = "Directory"

----------------------------------------------------------------------------
(* C7 *)

\* C7: in every state in which the caller can make a call, for every non-empty path P none of whose
\* prefixes is a File, create_dir_all(P) succeeds; afterwards every
\* non-empty prefix of P holds a Directory, and resolves to a Directory
\* that read_dir can list; every other path holds what it held before (so
\* the directories created are empty but for the next segment of P, and the
\* directories that existed keep their children), and no file content
\* changes.
C7_MkdirP ==
    \A path \in Paths :
        (Running /\ path # <<>> /\ NoFilePrefix(root, path)) =>
            LET d == create_dir_all(root, files, path) IN
            /\ Ok(d)
            /\ \A q \in Paths :
                   Stored(d.root, d.files, q) =
                       IF q # <<>> /\ IsPrefix(q, path)
                       THEN [type |-> "Directory", content |-> <<>>]
                       ELSE Stored(root, files, q)
            /\ \A i \in 1..Len(path) :
                   /\ MemFileSystem_get_from_relative_path(
                          d.root, d.files, Prefix(path, i)).type = "Directory"
                   /\ read_dir(d.root, d.files, Prefix(path, i)).res = "Ok"

\* create_dir_all has just made the two missing segments below a directory
\* that already had, and keeps, another child.
C7_Witness ==
    /\ last.op = "create_dir_all"
    /\ last.res = "Ok"
    /\ Len(last.path) = 3
    /\ steps = 2
    /\ Lookup(root, last.path).type = "Directory"
    /\ Lookup(root, last.path).some = FALSE
    /\ DOMAIN Lookup(root, Prefix(last.path, 2)).children = {last.path[3]}
    /\ Cardinality(DOMAIN Lookup(root, Prefix(last.path, 1)).children) = 2

----------------------------------------------------------------------------
(* C8 *)

\* C8: in every reachable state, for every path P: once create_dir_all(P)
\* has succeeded, a second create_dir_all(P) succeeds too and changes
\* nothing at all, neither the tree nor any file; and a create_dir_all
\* that repeated the successful call before it has succeeded.
C8_MkdirPIdempotent ==
    /\ (last.op = "create_dir_all" /\ last.again) => last.res = "Ok"
    /\ \A path \in Paths :
        LET first == create_dir_all(root, files, path) IN
        Ok(first) =>
            LET second == create_dir_all(first.root, first.files, path) IN
            /\ Ok(second)
            /\ second.root = first.root
            /\ second.files = first.files

\* A create_dir_all of a path of three segments has just been repeated.
C8_Witness ==
    /\ last.op = "create_dir_all"
    /\ last.again
    /\ Len(last.path) = 3
    /\ Lookup(root, last.path).type = "Directory"

----------------------------------------------------------------------------
(* C9 *)

\* Only the last segment of the path is missing.
OnlyLeafMissing(rt, path) ==
    /\ path # <<>>
    /\ Lookup(rt, path).type = "None"
    /\ Len(path) >= 2 => Lookup(rt, Parent(path)).type = "Directory"

\* C9: in every state in which the caller can make a call, for every path P: when an intermediate
\* segment of P is missing, create_dir(P) fails with MemDirNotFound and
\* leaves the observable tree unchanged; when only the last segment is
\* missing, it succeeds and the tree gains the Directory at P and nothing
\* else.
C9_CreateDir ==
    \A path \in Paths :
        LET r == create_dir(root, files, path) IN
        /\ (Running /\ MissingPrefix(root, path)) =>
               (r.res = "MemDirNotFound" /\ Unchanged(r))
        /\ (Running /\ OnlyLeafMissing(root, path)) =>
               /\ Ok(r)
               /\ \A q \in Paths :
                      Stored(r.root, r.files, q) =
                          IF q = path
                          THEN [type |-> "Directory", content |-> <<>>]
                          ELSE Stored(root, files, q)

\* create_dir has just made the last segment of a path of three segments:
\* the call before made the two directories above it (their complete_path
\* is that call's path, not this one's).
C9_Witness ==
    /\ last.op = "create_dir"
    /\ last.res = "Ok"
    /\ Len(last.path) = 3
    /\ steps = 2
    /\ Lookup(root, last.path).type = "Directory"
    /\ Lookup(root, Prefix(last.path, 1)).complete_path = Prefix(last.path, 2)

----------------------------------------------------------------------------
(* C10 *)

\* C10: in every reachable state, for every path P that holds a
\* Directory, at any depth, remove_dir(P) fails with the
\* directory-not-empty kind exactly when read_dir(P) lists something.
C10_NotEmptyIff ==
    \A path \in Paths :
        Lookup(root, path).type = "Directory" =>
            (remove_dir(root, files, path).res = "MemDirNotEmpty"
                <=> read_dir(root, files, path).entries # {})

----------------------------------------------------------------------------
(* C11 *)

\* C11: in every reachable state, for every path P that holds a Directory
\* (empty, never populated, or with a subtree), remove_dir_all(P) succeeds,
\* and afterwards neither P nor any path beneath it holds anything, while
\* the parent of P still holds its Directory.
C11_RemoveDirAllSucceeds ==
    \A path \in Paths :
        Lookup(root, path).type = "Directory" =>
            LET r == remove_dir_all(root, files, path) IN
            /\ Ok(r)
            /\ \A q \in Paths :
                   IsPrefix(path, q) => Lookup(r.root, q).type = "None"
            /\ Len(path) >= 2 => Lookup(r.root, Parent(path)).type = "Directory"

\* remove_dir_all has just removed a directory below the root together
\* with the file in it that a handle still refers to.
C11_Witness ==
    /\ last.op = "remove_dir_all"
    /\ last.res = "Ok"
    /\ Len(last.path) = 2
    /\ Lookup(root, Parent(last.path)).type = "Directory"
    /\ Lookup(root, last.path).type = "None"
    /\ \E k \in Slots :
           /\ handles[k].rc # 0
           /\ handles[k].stale
           /\ Parent(handles[k].path) = last.path
           /\ handles[k].rc \notin TreeCells(root)

----------------------------------------------------------------------------
(* C12 *)

\* Two entries are the same entry: the same kind and, for a File, the same
\* storage cell, for a Directory, the same subtree.
SameEntry(e1, e2) ==
    /\ e1.type = e2.type
    /\ e1.type = "File" => e1.rc = e2.rc
    /\ e1.type = "Directory" => e1.children = e2.children

\* C12: in every reachable state, for all paths from # to: if
\* rename(from, to) succeeds, then afterwards `to` resolves to the entry
\* `from` resolved to before the call (same kind, same cell and content, or
\* same subtree) and `from` no longer resolves.
C12_RenameMoves ==
    \A from \in Paths, to \in Paths :
        LET r == rename(root, files, from, to)
            was == MemFileSystem_get_from_relative_path(root, files, from)
            now == MemFileSystem_get_from_relative_path(r.root, r.files, to)
        IN  (from # to /\ Ok(r)) =>
                /\ now.type # "None"
                /\ SameEntry(now, was)
                /\ now.type = "File" =>
                       r.files[now.rc].content = files[was.rc].content
                /\ MemFileSystem_get_from_relative_path(
                       r.root, r.files, from).type = "None"

----------------------------------------------------------------------------
(* C13 *)

\* The complete_path an entry carries.
CompletePath(entry, fs) ==
    IF entry.type = "File" THEN fs[entry.rc].complete_path
    ELSE entry.complete_path

\* C13: in every reachable state, for all paths from and to: if
\* rename(from, to) succeeds, then afterwards the entry at `to` and every
\* entry beneath it carries as complete_path the path it is stored at, and
\* the path() of every file among them is that path.
C13_RenameUpdatesPaths ==
    \A from \in Paths, to \in Paths :
        LET r == rename(root, files, from, to) IN
        Ok(r) =>
            \A q \in Paths :
                LET entry == Lookup(r.root, q) IN
                (IsPrefix(to, q) /\ entry.type # "None") =>
                    /\ CompletePath(entry, r.files) = q
                    /\ entry.type = "File" =>
                           MemDirEntry_path(entry, r.files) = q

----------------------------------------------------------------------------
(* C14 *)

\* What read_dir answers for a path: the result and, of each entry listed,
\* the key it is held under and its kind.
Listing(rt, fs, p) ==
    LET listed == read_dir(rt, fs, p) IN
    [res |-> listed.res,
     entries |-> {<<x[1], MemDirEntry_file_type(x[2])>> : x \in listed.entries}]

\* C14: in every reachable state, for all paths from # to where `from`
\* holds a Directory: if rename(from, to) succeeds, read_dir(to) lists
\* afterwards the children (key and kind) that read_dir(from) listed
\* before, and so does read_dir(to/s) compared with read_dir(from/s) for
\* every path s into the directory.
C14_RenameKeepsStructure ==
    \A from \in Paths, to \in Paths :
        LET r == rename(root, files, from, to) IN
        (from # to /\ Lookup(root, from).type = "Directory" /\ Ok(r)) =>
            \A s \in Paths :
                Lookup(root, from \o s).type = "Directory" =>
                    Listing(r.root, r.files, to \o s)
                        = Listing(root, files, from \o s)

----------------------------------------------------------------------------
(* C15 *)

\* C15: in every reachable state, for every path `from` that holds an
\* entry and every path `to` whose parent does not exist: rename(from, to)
\* fails as an insertion at `to` would, with MemDirNotFound, and `from`
\* holds afterwards what it held.
C15_RenameNeedsParent ==
    \A from \in Paths, to \in Paths :
        (Lookup(root, from).type # "None" /\ MissingPrefix(root, to)) =>
            LET r == rename(root, files, from, to) IN
            /\ r.res = "MemDirNotFound"
            /\ r.res = create_dir(root, files, to).res
            /\ Stored(r.root, r.files, from) = Stored(root, files, from)

----------------------------------------------------------------------------
(* C16 *)

\* C16: in every reachable state, for all paths from # to where `to`
\* holds an entry: if rename(from, to) succeeds, then afterwards `to`
\* resolves to the entry `from` resolved to before, and no file of the
\* previous entry at `to` (the entry itself, or the files of its subtree) is
\* held anywhere in the tree any more.
C16_RenameOverwrites ==
    \A from \in Paths, to \in Paths :
        LET r == rename(root, files, from, to)
            previous == Lookup(root, to)
            was == MemFileSystem_get_from_relative_path(root, files, from)
            now == MemFileSystem_get_from_relative_path(r.root, r.files, to)
        IN  (from # to /\ previous.type # "None" /\ Ok(r)) =>
                /\ now.type # "None"
                /\ SameEntry(now, was)
                /\ (EntryCells(previous) \cap TreeCells(r.root))
                       \subseteq EntryCells(Lookup(root, from))

----------------------------------------------------------------------------
(* C17 *)

\* The immediate children a path has in the tree: key and entry.
Children(rt, p) ==
    {<<s, Lookup(rt, p \o <<s>>)>> :
        s \in {t \in Segs : Lookup(rt, p \o <<t>>).type # "None"}}

\* C17: in every reachable state, for every path P that holds a Directory,
\* read_dir(P) succeeds and lists exactly the immediate children of P, each
\* once and with its own kind: nothing deeper, and not P itself.
C17_ReadDirListsChildren ==
    \A path \in Paths :
        Lookup(root, path).type = "Directory" =>
            LET listed == read_dir(root, files, path) IN
            /\ listed.res = "Ok"
            /\ listed.entries = Children(root, path)
            /\ \A x \in listed.entries :
                   MemDirEntry_file_type(x[2])
                       = Lookup(root, path \o <<x[1]>>).type

----------------------------------------------------------------------------
(* C18 *)

\* C18: in every reachable state, for every path P that holds a Directory
\* without children (never populated, or emptied again), read_dir(P)
\* succeeds with an empty listing; and read_dir(P) fails only for a path
\* that does not resolve or resolves to a File.
C18_ReadDirEmpty ==
    \A path \in Paths :
        LET listed == read_dir(root, files, path)
            entry == MemFileSystem_get_from_relative_path(root, files, path)
        IN  /\ (Lookup(root, path).type = "Directory"
                   /\ Children(root, path) = {}) =>
                       (listed.res = "Ok" /\ listed.entries = {})
            /\ listed.res # "Ok" => entry.type \in {"None", "File"}

----------------------------------------------------------------------------
(* C19 *)

----------------------------------------------------------------------------
(* C20 *)

\* A proper prefix of the path holds a File.
FilePrefix(rt, path) ==
    \E i \in 1..(Len(path) - 1) : Lookup(rt, Prefix(path, i)).type = "File"

\* C20: in every reachable state, for every path P with a proper prefix
\* that holds a File, create_file(P), create_dir(P) and create_dir_all(P)
\* fail, return no handle, and leave the tree and every file as they were.
C20_NoDescentIntoFile ==
    \A path \in Paths :
        FilePrefix(root, path) =>
            \A r \in {create_file(root, files, path, FreshCell(files)),
                      create_dir(root, files, path),
                      create_dir_all(root, files, path)} :
                /\ ~Ok(r)
                /\ r.h = 0
                /\ r.root = root
                /\ r.files = files

----------------------------------------------------------------------------
(* C21 *)

\* C21: in every reachable state, for every path P: when P holds a
\* Directory, remove_file(P) fails; when P holds a File, remove_dir(P) and
\* remove_dir_all(P) fail; and in both cases P holds afterwards the entry
\* it held.
C21_RemoveChecksKind ==
    \A path \in Paths :
        /\ Lookup(root, path).type = "Directory" =>
               LET r == remove_file(root, files, path) IN
               ~Ok(r) /\ Lookup(r.root, path) = Lookup(root, path)
        /\ Lookup(root, path).type = "File" =>
               \A r \in {remove_dir(root, files, path),
                         remove_dir_all(root, files, path)} :
                   ~Ok(r) /\ Lookup(r.root, path) = Lookup(root, path)

----------------------------------------------------------------------------
(* C22 *)

\* The terminal entry of the path is absent: nothing is stored at the path,
\* and its parent is the root or a Directory.
AbsentTerminal(rt, path) ==
    /\ path # <<>>
    /\ Lookup(rt, path).type = "None"
    /\ Len(path) >= 2 => Lookup(rt, Parent(path)).type = "Directory"

\* C22: in every reachable state, for every path P whose terminal entry is
\* absent, remove_file(P) fails with MemFileNotFound, and remove_dir(P) and
\* remove_dir_all(P) fail with MemDirNotFound.
C22_RemoveAbsentNotFound ==
    \A path \in Paths :
        AbsentTerminal(root, path) =>
            /\ remove_file(root, files, path).res = "MemFileNotFound"
            /\ remove_dir(root, files, path).res = "MemDirNotFound"
            /\ remove_dir_all(root, files, path).res = "MemDirNotFound"

----------------------------------------------------------------------------
(* C23 *)

\* C23: in every reachable state, every entry of the tree, File or
\* Directory, carries as complete_path the sequence of keys under which it
\* is reached from the root.
C23_CompletePathIsKeyPath ==
    \A q \in Paths :
        Lookup(root, q).type # "None" =>
            CompletePath(Lookup(root, q), files) = q

----------------------------------------------------------------------------
(* C24 *)

\* C24: in every reachable state, for every path P,
\* get_from_relative_path(P) returns the entry stored under P's keys, and
\* nothing when a segment of P is absent or a segment before the last
\* holds a File; open_file and read_dir answer accordingly.
C24_ResolutionFollowsKeys ==
    \A path \in Paths :
        /\ MemFileSystem_get_from_relative_path(root, files, path)
               = Lookup(root, path)
        /\ Ok(open_file(root, files, path))
               <=> Lookup(root, path).type = "File"
        /\ read_dir(root, files, path).res = "Ok"
               <=> Lookup(root, path).type = "Directory"

----------------------------------------------------------------------------
(* C25 *)

\* C25: in every reachable state, create_file(P) for a path P that holds a
\* File succeeds, returns a handle on the cell the tree holds at P, and
\* leaves the tree and every content as they were.
C25_CreateFileTouches ==
    \A path \in Paths :
        Lookup(root, path).type = "File" =>
            LET r == create_file(root, files, path, FreshCell(files)) IN
            /\ Ok(r)
            /\ r.h = Lookup(root, path).rc
            /\ r.root = root
            /\ r.files = files

\* A create_file has just succeeded on a path whose file has content: the
\* file was there before the call, and written to.
C25_Witness ==
    /\ last.op = "create_file"
    /\ last.res = "Ok"
    /\ Lookup(root, last.path).type = "File"
    /\ files[Lookup(root, last.path).rc].content # <<>>

----------------------------------------------------------------------------
(* C26 *)

\* C26: in every reachable state, the empty tree included, each
\* single-entry operation called with the empty path (rename: with either
\* argument empty) fails with BadPath and leaves the tree and every
\* content as they were.
C26_EmptyPathIsBadPath ==
    LET calls ==
            {create_file(root, files, <<>>, FreshCell(files)),
             create_dir(root, files, <<>>),
             create_dir_all(root, files, <<>>),
             open_file(root, files, <<>>),
             remove_file(root, files, <<>>),
             remove_dir(root, files, <<>>),
             remove_dir_all(root, files, <<>>)}
            \cup {rename(root, files, <<>>, to) : to \in Paths}
            \cup {rename(root, files, from, <<>>) : from \in Paths}
    IN  \A r \in calls :
            r.res = "BadPath" /\ r.root = root /\ r.files = files

----------------------------------------------------------------------------
(* C27 *)

\* A directory entry as it is once the entry under the keys `below` has
\* left it: the same directory, with that one key gone from the children
\* of the removed entry's parent.
RECURSIVE Without(_, _)

Without(entry, below) ==
    IF Len(below) = 1
    THEN [entry EXCEPT !.children = Del(entry.children, below[1])]
    ELSE [entry EXCEPT !.children[Head(below)] =
             Without(entry.children[Head(below)], Tail(below))]

\* C27: in every reachable state, when remove_file(P), remove_dir(P) or
\* remove_dir_all(P) succeeds, afterwards P and every path beneath P no
\* longer resolve (open_file and read_dir on them fail), and every other
\* path resolves to the entry it resolved to before, with the same content
\* and children (a directory above P: the same but for the entry removed).
C27_RemoveFrame ==
    \A path \in Paths :
        \A r \in {remove_file(root, files, path),
                  remove_dir(root, files, path),
                  remove_dir_all(root, files, path)} :
            Ok(r) =>
                LET fs == DropCells(r.root, r.files, handles) IN
                \A q \in Paths :
                    LET before == MemFileSystem_get_from_relative_path(root, files, q)
                        after == MemFileSystem_get_from_relative_path(r.root, fs, q)
                    IN  IF IsPrefix(path, q)
                        THEN /\ after.type = "None"
                             /\ ~Ok(open_file(r.root, fs, q))
                             /\ read_dir(r.root, fs, q).res # "Ok"
                        ELSE IF q # <<>> /\ IsPrefix(q, path)
                        THEN after = Without(before,
                                         SubSeq(path, Len(q) + 1, Len(path)))
                        ELSE /\ after = before
                             /\ before.type = "File" =>
                                    fs[before.rc] = files[before.rc]

----------------------------------------------------------------------------
(* C28 *)

\* C28: in every reachable state, for every path P, open_file(P) and
\* read_dir(P), whether they succeed or fail, leave the tree (every entry
\* and every directory's children) and every file's content as they were.
C28_ResolutionKeepsTree ==
    \A path \in Paths :
        /\ open_file(root, files, path).root = root
        /\ open_file(root, files, path).files = files
        /\ read_dir(root, files, path).root = root
        /\ read_dir(root, files, path).files = files

\* An open_file has just succeeded on a file that has content.
C28_Witness ==
    /\ last.op = "open_file"
    /\ last.res = "Ok"
    /\ \E k \in Slots :
           /\ handles[k].path = last.path
           /\ handles[k].rc # 0
           /\ files[handles[k].rc].content # <<>>

----------------------------------------------------------------------------
(* C29 *)

\* C29: every sync_all on a file handle returns success and leaves every
\* file's content (and with it what any handle reads next), every handle
\* and the tree as they were before the call.
C29_SyncAllNoOp ==
    [][(last'.op = "sync_all" /\ steps' = steps + 1) =>
           /\ last'.res = "Ok"
           /\ files' = files
           /\ handles' = handles
           /\ root' = root]_vars

\* A sync_all has just returned on a handle whose file has content.
C29_Witness ==
    /\ last.op = "sync_all"
    /\ \E k \in Slots : handles[k].rc # 0 /\ files[handles[k].rc].content # <<>>

----------------------------------------------------------------------------
(* C30 *)

\* The depth of the recursion of each tree walk: the number of entries
\* below the filesystem on which the method is called in turn.  A call is
\* counted as long as `fuel` lasts, so that a walk which does not come to
\* an end is counted up to Fuel instead of being followed for ever.
Fuel == MaxPathLen + 1

RECURSIVE get_from_relative_path_calls(_, _, _)

\* MemDirEntry::get_from_relative_path, with the call of
\* MemDirectory::get_from_relative_path it makes on the same directory.
get_from_relative_path_calls(entry, path, fuel) ==
    IF fuel = 0 THEN 0
    ELSE IF path = <<>> \/ entry.type = "File" THEN 1
    ELSE IF entry.name = Head(path) THEN 1
    ELSE IF ~entry.some \/ Head(path) \notin DOMAIN entry.children THEN 1
    ELSE 1 + get_from_relative_path_calls(entry.children[Head(path)],
                                          Tail(path), fuel - 1)

MemFileSystem_get_from_relative_path_calls(rt, path) ==
    IF DOMAIN rt = {} \/ path = <<>> THEN 0
    ELSE IF Head(path) \notin DOMAIN rt THEN 0
    ELSE get_from_relative_path_calls(rt[Head(path)], Tail(path), Fuel)

RECURSIVE insert_file_calls(_, _, _)

\* MemDirectory::insert_file
insert_file_calls(dir, path, fuel) ==
    IF fuel = 0 THEN 0
    ELSE IF path = <<>> THEN 1
    ELSE IF /\ Head(path) \in DOMAIN dir.children
            /\ dir.children[Head(path)].type = "Directory"
         THEN 1 + insert_file_calls(dir.children[Head(path)], Tail(path), fuel - 1)
         ELSE 1

MemFileSystem_insert_file_calls(rt, path) ==
    IF path = <<>> THEN 0
    ELSE IF Head(path) \in DOMAIN rt /\ rt[Head(path)].type = "Directory"
         THEN insert_file_calls(rt[Head(path)], Tail(path), Fuel)
         ELSE 0

RECURSIVE insert_dir_calls_same_path(_, _, _, _)

\* Mutant: a directory made on the way is handed the path it was made
\* from, not the segments after its own.
insert_dir_calls_same_path(dir, path, force, fuel) ==
    IF fuel = 0 THEN 0
    ELSE IF path = <<>> THEN 1
    ELSE IF Head(path) \in DOMAIN dir.children
         THEN IF dir.children[Head(path)].type = "Directory" /\ Tail(path) # <<>>
              THEN 1 + insert_dir_calls_same_path(dir.children[Head(path)],
                                                  Tail(path), force, fuel - 1)
              ELSE 1
         ELSE IF Tail(path) # <<>> /\ force
              THEN 1 + insert_dir_calls_same_path(
                           MemDirectoryInternal(Head(path), <<>>, FALSE, EmptyMap),
                           path, force, fuel - 1)
              ELSE 1

RECURSIVE insert_dir_calls(_, _, _, _)

\* MemDirectory::insert_dir
insert_dir_calls(dir, path, force, fuel) ==
    IF fuel = 0 THEN 0
    ELSE IF path = <<>> THEN 1
    ELSE IF Head(path) \in DOMAIN dir.children
         THEN IF dir.children[Head(path)].type = "Directory" /\ Tail(path) # <<>>
              THEN 1 + insert_dir_calls(dir.children[Head(path)],
                                        Tail(path), force, fuel - 1)
              ELSE 1
         ELSE IF Tail(path) # <<>> /\ force
              THEN 1 + insert_dir_calls(
                           MemDirectoryInternal(Head(path), <<>>, FALSE, EmptyMap),
                           Tail(path), force, fuel - 1)
              ELSE 1

MemFileSystem_insert_dir_calls(rt, path, force) ==
    IF path = <<>> THEN 0
    ELSE IF Head(path) \in DOMAIN rt
         THEN IF rt[Head(path)].type = "Directory" /\ Tail(path) # <<>>
              THEN insert_dir_calls(rt[Head(path)], Tail(path), force, Fuel)
              ELSE 0
         ELSE IF Tail(path) # <<>> /\ force
              THEN insert_dir_calls(
                       MemDirectoryInternal(Head(path), <<>>, FALSE, EmptyMap),
                       Tail(path), force, Fuel)
              ELSE 0

RECURSIVE remove_calls(_, _, _)

\* MemDirEntry::remove, with the call of MemDirectory::remove it makes on
\* a directory.
remove_calls(entry, path, fuel) ==
    IF fuel = 0 THEN 0
    ELSE IF entry.type = "File" \/ path = <<>> \/ ~entry.some THEN 1
    ELSE IF Head(path) \in DOMAIN entry.children /\ Tail(path) # <<>>
         THEN 1 + remove_calls(entry.children[Head(path)], Tail(path), fuel - 1)
         ELSE 1

MemFileSystem_remove_calls(rt, path) ==
    IF DOMAIN rt = {} \/ path = <<>> THEN 0
    ELSE IF Head(path) \in DOMAIN rt /\ Tail(path) # <<>>
         THEN remove_calls(rt[Head(path)], Tail(path), Fuel)
         ELSE 0

RECURSIVE rename_calls(_, _, _, _)

\* MemDirEntry::rename, with the call of MemDirectory::rename it makes on
\* a directory.
rename_calls(entry, path, new_path, fuel) ==
    IF fuel = 0 THEN 0
    ELSE IF entry.type = "File" THEN 1
    ELSE IF path = <<>> \/ new_path = <<>> \/ ~entry.some THEN 1
    ELSE IF Head(path) \in DOMAIN entry.children /\ Tail(path) # <<>>
         THEN 1 + rename_calls(entry.children[Head(path)],
                               Tail(path), Tail(new_path), fuel - 1)
         ELSE 1

MemFileSystem_rename_internal_calls(rt, path, new_path) ==
    IF DOMAIN rt = {} \/ path = <<>> \/ new_path = <<>> THEN 0
    ELSE IF Head(path) \in DOMAIN rt /\ Tail(path) # <<>>
         THEN rename_calls(rt[Head(path)], Tail(path), Tail(new_path), Fuel)
         ELSE 0

\* C30: in every reachable state, every walk of the tree (resolution for
\* open_file and read_dir, insertion of a file, insertion of a directory
\* with and without force, removal, rename) comes to an end after a number
\* of recursive calls that is at most the number of segments of its path
\* argument, for rename of each of its two path arguments.
C30_RecursionBounded ==
    /\ \A path \in Paths :
           /\ MemFileSystem_get_from_relative_path_calls(root, path) <= Len(path)
           /\ MemFileSystem_insert_file_calls(root, path) <= Len(path)
           /\ MemFileSystem_insert_dir_calls(root, path, FALSE) <= Len(path)
           /\ MemFileSystem_insert_dir_calls(root, path, TRUE) <= Len(path)
           /\ MemFileSystem_remove_calls(root, path) <= Len(path)
    /\ \A from \in Paths, to \in Paths :
           /\ MemFileSystem_rename_internal_calls(root, from, to) <= Len(from)
           /\ MemFileSystem_rename_internal_calls(root, from, to) <= Len(to)

\* A read_dir has just walked a path of the greatest length down to its
\* last segment, one recursive call for each segment.
C30_Witness ==
    /\ last.op = "read_dir"
    /\ last.res = "Ok"
    /\ Len(last.path) = MaxPathLen
    /\ MemFileSystem_get_from_relative_path_calls(root, last.path) = MaxPathLen

----------------------------------------------------------------------------
(* C33 *)

\* The cells as a read-to-end with a buffer of n bytes leaves them.
RECURSIVE Drained(_, _, _)

Drained(fs, rc, n) ==
    LET r == MemFile_read(fs, rc, n) IN
    IF r.out = <<>> THEN r.files ELSE Drained(r.files, rc, n)

\* C33: in every reachable state, for every handle: a write appends its
\* bytes at the end of the file's content and touches no other file; a
\* read returns bytes from the front of the content and leaves exactly the
\* bytes after them, so the bytes read followed by the bytes left are the
\* content before the read; and after a read-to-end through one handle, a
\* write through it followed by a read-to-end through any handle of the
\* same file returns exactly the bytes written.
C33_SharedQueue ==
    \A k \in Slots :
        handles[k].rc # 0 =>
            LET rc == handles[k].rc IN
            /\ \A n \in 1..MaxContent :
                   LET r == MemFile_read(files, rc, n) IN
                   /\ r.out \o r.files[rc].content = files[rc].content
                   /\ Len(r.out) = Min(n, Len(files[rc].content))
                   /\ \A i \in FileIds \ {rc} : r.files[i] = files[i]
            /\ \A buf \in Buffers :
                   LET w == MemFile_write(files, rc, buf) IN
                   /\ w[rc].content = files[rc].content \o buf
                   /\ \A i \in FileIds \ {rc} : w[i] = files[i]
            /\ \A buf \in Buffers, n \in 1..MaxContent, j \in Slots :
                   handles[j].rc = rc =>
                       LET w == MemFile_write(Drained(files, rc, n), rc, buf) IN
                       /\ ReadToEnd(w, handles[j].rc, n) = buf
                       /\ Drained(w, handles[j].rc, n)[rc].content = <<>>

\* A read has just taken the front of a file's content and left the rest.
C33_Witness ==
    /\ last.op = "read"
    /\ \E k \in Slots : handles[k].rc # 0 /\ files[handles[k].rc].content # <<>>

----------------------------------------------------------------------------
(* C34 *)

\* C34: in every reachable state, for all paths from and to: if
\* rename(from, to) succeeds, every path that is neither `from`, `to`, nor
\* beneath one of them, nor a directory above one of them, resolves
\* afterwards to the entry it resolved to before, with the same content and
\* children; and a directory at a proper prefix of `to` is still that
\* directory afterwards.
C34_RenameFrame ==
    \A from \in Paths, to \in Paths :
        LET r == rename(root, files, from, to) IN
        Ok(r) =>
            \A q \in Paths :
                LET before == MemFileSystem_get_from_relative_path(root, files, q)
                    after == MemFileSystem_get_from_relative_path(r.root, r.files, q)
                IN  /\ (~IsPrefix(from, q) /\ ~IsPrefix(to, q)
                          /\ ~IsPrefix(q, from) /\ ~IsPrefix(q, to)) =>
                           /\ after = before
                           /\ before.type = "File" =>
                                  r.files[before.rc] = files[before.rc]
                    /\ (IsPrefix(q, to) /\ q # to /\ before.type = "Directory") =>
                           /\ after.type = "Directory"
                           /\ after.name = before.name
                           /\ after.complete_path = before.complete_path

----------------------------------------------------------------------------
(* C35 *)

----------------------------------------------------------------------------
(* C36 *)

\* DirEntry::name, the provided method of the trait: the last component of
\* path(), the empty string when path() has none.
DirEntry_name(entry, fs) ==
    LET path == MemDirEntry_path(entry, fs) IN
    IF path = <<>> THEN "" ELSE path[Len(path)]

\* The name an entry stores.
StoredName(entry, fs) ==
    IF entry.type = "File" THEN fs[entry.rc].name ELSE entry.name

\* C36: in every reachable state, every entry's stored name is the key it
\* is held under, and every entry that read_dir(P) returns answers as
\* name() the segment under which P holds it.
C36_NameIsKey ==
    /\ \A q \in Paths :
           Lookup(root, q).type # "None" =>
               StoredName(Lookup(root, q), files) = q[Len(q)]
    /\ \A path \in Paths :
           \A x \in read_dir(root, files, path).entries :
               DirEntry_name(x[2], files) = x[1]

----------------------------------------------------------------------------
(* C37 *)

\* C37: in every reachable state, for all paths from and to where `from`
\* holds a File: if rename(from, to) succeeds, open_file(to) afterwards
\* returns a handle on the cell that `from` held before, the cell a handle
\* opened on `from` before the rename refers to, with the content it had.
C37_RenameKeepsCell ==
    \A from \in Paths, to \in Paths :
        LET r == rename(root, files, from, to)
            was == Lookup(root, from)
            o == open_file(r.root, r.files, to)
        IN  (was.type = "File" /\ Ok(r)) =>
                /\ Ok(o)
                /\ o.h = was.rc
                /\ o.files[o.h].content = files[was.rc].content

----------------------------------------------------------------------------
(* C38 *)

\* C38: in every reachable state every handle's cell is alive, whether or
\* not the tree still holds it; and for every handle on a file the tree
\* holds at the handle's path, after a successful remove_file of that path
\* or remove_dir_all of a directory above it the handle's cell is as it
\* was, a write through the handle appends to it, and a create_file of the
\* path that then succeeds returns another cell, empty, which a write
\* through the old handle does not reach.
C38_HandleOutlivesEntry ==
    \A k \in Slots :
        handles[k].rc # 0 =>
            LET rc == handles[k].rc
                path == handles[k].path
            IN  /\ files[rc].live
                /\ (Lookup(root, path).type = "File" /\ Lookup(root, path).rc = rc) =>
                       \A r \in {remove_file(root, files, path)}
                                \cup {remove_dir_all(root, files, Prefix(path, i)) :
                                         i \in 1..(Len(path) - 1)} :
                           Ok(r) =>
                               LET fs == DropCells(r.root, r.files, handles)
                                   c == create_file(r.root, fs, path, FreshCell(fs))
                               IN  /\ Lookup(r.root, path).type = "None"
                                   /\ fs[rc] = files[rc]
                                   /\ \A buf \in Buffers :
                                          MemFile_write(fs, rc, buf)[rc].content
                                              = files[rc].content \o buf
                                   /\ Ok(c) =>
                                          /\ c.h # rc
                                          /\ c.files[c.h].content = <<>>
                                          /\ c.files[rc] = files[rc]
                                          /\ \A buf \in Buffers :
                                                 MemFile_write(c.files, rc, buf)[c.h].content
                                                     = <<>>

\* A file was created, written through a handle and removed: the handle
\* still has the content, and the tree no longer holds its cell.
C38_Witness ==
    /\ last.op \in {"remove_file", "remove_dir_all"}
    /\ last.res = "Ok"
    /\ \E k \in Slots :
           /\ handles[k].rc # 0
           /\ handles[k].rc \notin TreeCells(root)
           /\ files[handles[k].rc].content # <<>>

----------------------------------------------------------------------------
(* C39 *)

\* The RefCells: the root mapping, a directory node (known by the keys it
\* is stored under) and a file node (known by its cell).
RootCell == [kind |-> "root", at |-> <<>>, rc |-> 0]

DirCell(at) == [kind |-> "dir", at |-> at, rc |-> 0]

FileCell(rc) == [kind |-> "file", at |-> <<>>, rc |-> rc]

CellOf(entry, at) ==
    IF entry.type = "File" THEN FileCell(entry.rc) ELSE DirCell(at)

\* What a call does to the RefCells, in order: try_borrow and
\* try_borrow_mut, and the drop of the Ref or RefMut last taken.
Borrow(cell) == <<[ev |-> "try_borrow", cell |-> cell]>>

BorrowMut(cell) == <<[ev |-> "try_borrow_mut", cell |-> cell]>>

Drop == <<[ev |-> "drop", cell |-> RootCell]>>

\* A borrow that lives for one expression, or one block, only.
Temp(cell) == Borrow(cell) \o Drop

TempMut(cell) == BorrowMut(cell) \o Drop

RECURSIVE get_from_relative_path_borrows(_, _, _)

\* MemDirEntry::get_from_relative_path on the entry stored under the keys
\* `at`, with the call of MemDirectory::get_from_relative_path it makes.
get_from_relative_path_borrows(entry, at, path) ==
    IF path = <<>> THEN <<>>
    ELSE IF entry.type = "File" THEN Temp(FileCell(entry.rc))
    ELSE Temp(DirCell(at)) \o
         (IF entry.name = Head(path) THEN <<>>
          ELSE Borrow(DirCell(at)) \o
               (IF ~entry.some \/ Head(path) \notin DOMAIN entry.children
                THEN <<>>
                ELSE get_from_relative_path_borrows(entry.children[Head(path)],
                         at \o <<Head(path)>>, Tail(path))) \o
               Drop)

MemFileSystem_get_from_relative_path_borrows(rt, path) ==
    Borrow(RootCell) \o
    (IF DOMAIN rt = {} \/ path = <<>> THEN <<>>
     ELSE IF Head(path) \notin DOMAIN rt THEN <<>>
     ELSE get_from_relative_path_borrows(rt[Head(path)], <<Head(path)>>, Tail(path))) \o
    Drop

RECURSIVE resolved_at(_, _, _)

\* The keys under which the entry that get_from_relative_path returns is
\* stored.
resolved_at(entry, at, path) ==
    IF path = <<>> \/ entry.type = "File" \/ entry.name = Head(path) THEN at
    ELSE IF ~entry.some \/ Head(path) \notin DOMAIN entry.children THEN at
    ELSE resolved_at(entry.children[Head(path)], at \o <<Head(path)>>, Tail(path))

open_file_borrows(rt, path) == MemFileSystem_get_from_relative_path_borrows(rt, path)

read_dir_borrows(rt, fs, path) ==
    MemFileSystem_get_from_relative_path_borrows(rt, path) \o
    (IF MemFileSystem_get_from_relative_path(rt, fs, path).type = "Directory"
     THEN Temp(DirCell(resolved_at(rt[Head(path)], <<Head(path)>>, Tail(path))))
     ELSE <<>>)

RECURSIVE insert_file_borrows(_, _, _)

\* MemDirectory::insert_file on the directory stored under the keys `at`
insert_file_borrows(dir, at, path) ==
    Temp(DirCell(at)) \o
    (IF dir.some THEN <<>> ELSE TempMut(DirCell(at))) \o
    (IF path = <<>> THEN <<>>
     ELSE BorrowMut(DirCell(at)) \o
          (IF /\ Head(path) \in DOMAIN dir.children
              /\ dir.children[Head(path)].type = "Directory"
           THEN insert_file_borrows(dir.children[Head(path)],
                                    at \o <<Head(path)>>, Tail(path))
           ELSE <<>>) \o
          Drop)

MemFileSystem_insert_file_borrows(rt, path) ==
    IF path = <<>> THEN <<>>
    ELSE BorrowMut(RootCell) \o
         (IF Head(path) \in DOMAIN rt /\ rt[Head(path)].type = "Directory"
          THEN insert_file_borrows(rt[Head(path)], <<Head(path)>>, Tail(path))
          ELSE <<>>) \o
         Drop

RECURSIVE insert_dir_borrows(_, _, _, _)

\* MemDirectory::insert_dir on the directory stored, or about to be stored,
\* under the keys `at`
insert_dir_borrows(dir, at, path, force) ==
    Temp(DirCell(at)) \o
    (IF dir.some THEN <<>> ELSE TempMut(DirCell(at))) \o
    (IF path = <<>> THEN <<>>
     ELSE BorrowMut(DirCell(at)) \o
          (IF Head(path) \in DOMAIN dir.children
           THEN IF dir.children[Head(path)].type = "Directory" /\ Tail(path) # <<>>
                THEN insert_dir_borrows(dir.children[Head(path)],
                                        at \o <<Head(path)>>, Tail(path), force)
                ELSE <<>>
           ELSE IF Tail(path) # <<>> /\ force
                THEN insert_dir_borrows(
                         MemDirectoryInternal(Head(path), <<>>, FALSE, EmptyMap),
                         at \o <<Head(path)>>, Tail(path), force)
                ELSE <<>>) \o
          Drop)

MemFileSystem_insert_dir_borrows(rt, path, force) ==
    IF path = <<>> THEN <<>>
    ELSE BorrowMut(RootCell) \o
         (IF Head(path) \in DOMAIN rt
          THEN IF rt[Head(path)].type = "Directory" /\ Tail(path) # <<>>
               THEN insert_dir_borrows(rt[Head(path)], <<Head(path)>>,
                                       Tail(path), force)
               ELSE <<>>
          ELSE IF Tail(path) # <<>> /\ force
               THEN insert_dir_borrows(
                        MemDirectoryInternal(Head(path), <<>>, FALSE, EmptyMap),
                        <<Head(path)>>, Tail(path), force)
               ELSE <<>>) \o
         Drop

RECURSIVE remove_borrows(_, _, _)

\* MemDirEntry::remove on the entry stored under the keys `at`, with the
\* call of MemDirectory::remove it makes on a directory.
remove_borrows(entry, at, path) ==
    IF entry.type = "File" \/ path = <<>> THEN <<>>
    ELSE BorrowMut(DirCell(at)) \o
         (IF ~entry.some \/ Head(path) \notin DOMAIN entry.children THEN <<>>
          ELSE IF Tail(path) # <<>>
               THEN remove_borrows(entry.children[Head(path)],
                                   at \o <<Head(path)>>, Tail(path))
               ELSE IF entry.children[Head(path)].type = "Directory"
                    THEN Temp(DirCell(at \o <<Head(path)>>))
                    ELSE <<>>) \o
         Drop

MemFileSystem_remove_borrows(rt, path, entry_type) ==
    BorrowMut(RootCell) \o
    (IF DOMAIN rt = {} \/ path = <<>> THEN <<>>
     ELSE IF Head(path) \notin DOMAIN rt THEN <<>>
     ELSE IF Tail(path) # <<>>
          THEN remove_borrows(rt[Head(path)], <<Head(path)>>, Tail(path))
          ELSE IF /\ MemDirEntry_file_type(rt[Head(path)]) = entry_type
                  /\ rt[Head(path)].type = "Directory"
               THEN Temp(DirCell(<<Head(path)>>))
               ELSE <<>>) \o
    Drop

RECURSIVE rename_borrows(_, _, _, _)

\* MemDirEntry::rename on the entry stored under the keys `at`, with the
\* call of MemDirectory::rename it makes on a directory.
rename_borrows(entry, at, path, new_path) ==
    IF entry.type = "File" \/ path = <<>> \/ new_path = <<>> THEN <<>>
    ELSE BorrowMut(DirCell(at)) \o
         (IF ~entry.some \/ Head(path) \notin DOMAIN entry.children THEN <<>>
          ELSE IF Tail(path) # <<>>
               THEN rename_borrows(entry.children[Head(path)],
                                   at \o <<Head(path)>>, Tail(path), Tail(new_path))
               ELSE TempMut(CellOf(entry.children[Head(path)],
                                   at \o <<Head(path)>>))) \o
         Drop

MemFileSystem_rename_internal_borrows(rt, path, new_path) ==
    Temp(RootCell) \o
    (IF DOMAIN rt = {} \/ path = <<>> \/ new_path = <<>> THEN <<>>
     ELSE BorrowMut(RootCell) \o
          (IF Head(path) \notin DOMAIN rt THEN <<>>
           ELSE IF Tail(path) # <<>>
                THEN rename_borrows(rt[Head(path)], <<Head(path)>>,
                                    Tail(path), Tail(new_path))
                ELSE TempMut(CellOf(rt[Head(path)], <<Head(path)>>))) \o
          Drop)

\* Mutant: read keeps the Ref it copied the content under while it takes
\* the RefMut to store the remainder.
MemFile_read_borrows_unscoped(rc) ==
    Borrow(FileCell(rc)) \o BorrowMut(FileCell(rc)) \o Drop \o Drop

\* Read::read: the Ref ends with its block, then the RefMut is taken.
MemFile_read_borrows(rc) == Temp(FileCell(rc)) \o TempMut(FileCell(rc))

\* Write::write and Write::flush
MemFile_write_borrows(rc) == TempMut(FileCell(rc))

\* MemDirEntry::path
MemDirEntry_path_borrows(entry, at) == Temp(CellOf(entry, at))

\* RefCell's rule, followed through a call: a try_borrow succeeds when no
\* RefMut of the cell is held, a try_borrow_mut when nothing of the cell
\* is held.  `held` is the stack of borrows alive.
RECURSIVE BorrowsSucceed(_, _)

BorrowsSucceed(events, held) ==
    IF events = <<>> THEN TRUE
    ELSE LET e == Head(events) IN
         IF e.ev = "try_borrow"
         THEN /\ \A i \in 1..Len(held) : held[i].cell = e.cell => ~held[i].mut
              /\ BorrowsSucceed(Tail(events),
                                Append(held, [cell |-> e.cell, mut |-> FALSE]))
         ELSE IF e.ev = "try_borrow_mut"
         THEN /\ \A i \in 1..Len(held) : held[i].cell # e.cell
              /\ BorrowsSucceed(Tail(events),
                                Append(held, [cell |-> e.cell, mut |-> TRUE]))
         ELSE BorrowsSucceed(Tail(events), SubSeq(held, 1, Len(held) - 1))

\* One path of each length: the borrows of rename depend on `to` through
\* the number of its segments only.
OfLength == {[i \in 1..n |-> "a"] : n \in 0..MaxPathLen}

\* C39: in every reachable state, every call of the public interface, made
\* while no other call is in progress, takes each of its runtime-checked
\* borrows of the root mapping, a directory node or a file node while no
\* conflicting borrow of that node is held, so none fails on a borrow.
C39_NoBorrowConflict ==
    /\ \A path \in Paths :
           /\ BorrowsSucceed(open_file_borrows(root, path), <<>>)
           /\ BorrowsSucceed(read_dir_borrows(root, files, path), <<>>)
           /\ BorrowsSucceed(MemFileSystem_insert_file_borrows(root, path), <<>>)
           /\ BorrowsSucceed(MemFileSystem_insert_dir_borrows(root, path, FALSE), <<>>)
           /\ BorrowsSucceed(MemFileSystem_insert_dir_borrows(root, path, TRUE), <<>>)
           /\ BorrowsSucceed(MemFileSystem_remove_borrows(root, path, "File"), <<>>)
           /\ BorrowsSucceed(MemFileSystem_remove_borrows(root, path, "Directory"), <<>>)
           /\ Lookup(root, path).type # "None" =>
                  BorrowsSucceed(MemDirEntry_path_borrows(Lookup(root, path), path), <<>>)
    /\ \A from \in Paths, to \in OfLength :
           BorrowsSucceed(MemFileSystem_rename_internal_borrows(root, from, to), <<>>)
    /\ \A k \in Slots :
           handles[k].rc # 0 =>
               /\ BorrowsSucceed(MemFile_read_borrows(handles[k].rc), <<>>)
               /\ BorrowsSucceed(MemFile_write_borrows(handles[k].rc), <<>>)

\* A rename below the root has just succeeded: it held the RefMut of the
\* root mapping and of a directory while it took the RefMut of the entry;
\* and a handle is held, on which read takes its two borrows in turn.
C39_Witness ==
    /\ last.op = "rename"
    /\ last.res = "Ok"
    /\ Len(last.path) >= 2
    /\ Len(MemFileSystem_rename_internal_borrows(root, last.path, last.path)) >= 8
    /\ \E k \in Slots : handles[k].rc # 0

----------------------------------------------------------------------------
(* C40 *)

\* C40: in every reachable state, create_dir(P) for a path P that holds a
\* Directory succeeds and leaves that directory, its children and the rest
\* of the tree, and every content, as they were.
C40_CreateDirOnDirectory ==
    \A path \in Paths :
        Lookup(root, path).type = "Directory" =>
            LET r == create_dir(root, files, path) IN
            /\ Ok(r)
            /\ r.root = root
            /\ r.files = files

\* A create_dir has just succeeded on a directory that has a child: the
\* directory was there before the call.
C40_Witness ==
    /\ last.op = "create_dir"
    /\ last.res = "Ok"
    /\ Lookup(root, last.path).type = "Directory"
    /\ DOMAIN Lookup(root, last.path).children # {}

----------------------------------------------------------------------------
(* The S3 backend (src/src/s3.rs).  A path is the string the caller passed, *)
(* a sequence of characters, and is the key of the object; the bucket is    *)
(* the set of keys it stores.  Every call reports the requests it sent.     *)

MaxS3PathLen == 2
MaxS3Calls == 2

S3Chars == {".", "/", "a"}

Str3(c1, c2, c3) == <<c1, c2, c3>>

\* Paths of the calls: every short string, and longer ones around "../".
S3Paths ==
    UNION {[1..n -> S3Chars] : n \in 0..MaxS3PathLen}
    \cup {Str3(".", ".", "/"), Str3(".", ".", "/") \o <<"a">>,
          <<"a">> \o Str3(".", ".", "/"), <<"a", "/">> \o Str3(".", ".", "/"),
          <<".", "/">> \o Str3(".", ".", "/"),
          <<".", "/", ".", "/">> \o Str3(".", ".", "/") \o <<"a">>,
          <<".", "/", "a", "/">>, <<"a", "/", "a">>}

\* str::contains
contains(s, pat) ==
    \E i \in 1..(Len(s) - Len(pat) + 1) : SubSeq(s, i, i + Len(pat) - 1) = pat

\* str::ends_with
ends_with(s, pat) ==
    /\ Len(s) >= Len(pat)
    /\ SubSeq(s, Len(s) - Len(pat) + 1, Len(s)) = pat

\* str::starts_with
starts_with(s, pat) ==
    /\ Len(s) >= Len(pat)
    /\ SubSeq(s, 1, Len(pat)) = pat

\* str::trim_start_matches: the prefix is removed as often as it matches.
RECURSIVE trim_start_matches(_, _)
trim_start_matches(s, pat) ==
    IF starts_with(s, pat)
    THEN trim_start_matches(SubSeq(s, Len(pat) + 1, Len(s)), pat)
    ELSE s

ParentDir == Str3(".", ".", "/")

Request(req, key) == [req |-> req, key |-> key]

S3Result(res, objects, requests, entries) ==
    [res |-> res, objects |-> objects, requests |-> requests,
     entries |-> entries]

\* Variant of rename that validates only its first argument.
S3FileSystem_rename_unchecked_to(objects, from, to) ==
    IF contains(from, ParentDir)
    THEN S3Result("RelativePath", objects, <<>>, {})
    ELSE IF from \notin objects
    THEN S3Result("RusotoCopyObjectError", objects,
                  <<Request("copy_object", to)>>, {})
    ELSE S3Result("Ok", (objects \cup {to}) \ {from},
                  <<Request("copy_object", to),
                    Request("delete_object", from)>>, {})

\* s3.rs create_file: put_object of the key, then get_object of it.
S3FileSystem_create_file(objects, path) ==
    IF contains(path, ParentDir)
    THEN S3Result("RelativePath", objects, <<>>, {})
    ELSE S3Result("Ok", objects \cup {path},
                  <<Request("put_object", path),
                    Request("get_object", path)>>, {})

\* s3.rs create_dir: the key of a directory ends with '/'.
S3FileSystem_create_dir(objects, path) ==
    IF contains(path, ParentDir)
    THEN S3Result("RelativePath", objects, <<>>, {})
    ELSE LET dir == IF ends_with(path, <<"/">>) THEN path
                    ELSE path \o <<"/">>
         IN  S3Result("Ok", objects \cup {dir},
                      <<Request("put_object", dir)>>, {})

S3FileSystem_create_dir_all(objects, path) ==
    S3FileSystem_create_dir(objects, path)

\* s3.rs open_file: get_object fails on a key the bucket does not hold.
S3FileSystem_open_file(objects, path) ==
    IF contains(path, ParentDir)
    THEN S3Result("RelativePath", objects, <<>>, {})
    ELSE S3Result(IF path \in objects THEN "Ok" ELSE "RusotoGetObjectError",
                  objects, <<Request("get_object", path)>>, {})

\* s3.rs read_dir: leading "./" are trimmed before the check; "." lists the
\* whole bucket, any other name lists the keys under name + '/'.
S3FileSystem_read_dir(objects, path) ==
    LET dir_name == trim_start_matches(path, <<".", "/">>)
    IN  IF contains(dir_name, ParentDir)
        THEN S3Result("RelativePath", objects, <<>>, {})
        ELSE LET prefix == IF dir_name = <<".">> THEN <<>>
                           ELSE IF ends_with(dir_name, <<"/">>) THEN dir_name
                           ELSE dir_name \o <<"/">>
             IN  S3Result("Ok", objects,
                          <<Request("list_objects_v2", prefix)>>,
                          {key \in objects : starts_with(key, prefix)})

\* s3.rs remove_file: delete_object succeeds whether or not the key exists.
S3FileSystem_remove_file(objects, path) ==
    IF contains(path, ParentDir)
    THEN S3Result("RelativePath", objects, <<>>, {})
    ELSE S3Result("Ok", objects \ {path},
                  <<Request("delete_object", path)>>, {})

\* s3.rs remove_dir_all: deletes the key as given.
S3FileSystem_remove_dir_all(objects, path) ==
    IF contains(path, ParentDir)
    THEN S3Result("RelativePath", objects, <<>>, {})
    ELSE S3Result("Ok", objects \ {path},
                  <<Request("delete_object", path)>>, {})

\* s3.rs remove_dir: read_dir, DirectoryNotEmpty on any entry, else
\* remove_dir_all.
S3FileSystem_remove_dir(objects, path) ==
    IF contains(path, ParentDir)
    THEN S3Result("RelativePath", objects, <<>>, {})
    ELSE LET list == S3FileSystem_read_dir(objects, path)
         IN  IF list.res # "Ok" THEN list
             ELSE IF list.entries # {}
             THEN S3Result("DirectoryNotEmpty", objects, list.requests, {})
             ELSE LET del == S3FileSystem_remove_dir_all(objects, path)
                  IN  S3Result(del.res, del.objects,
                               list.requests \o del.requests, {})

\* s3.rs rename: both arguments are checked, then copy_object to the new key
\* and remove_file of the old one.
S3FileSystem_rename(objects, from, to) ==
    IF contains(from, ParentDir)
    THEN S3Result("RelativePath", objects, <<>>, {})
    ELSE IF contains(to, ParentDir)
    THEN S3Result("RelativePath", objects, <<>>, {})
    ELSE IF from \notin objects
    THEN S3Result("RusotoCopyObjectError", objects,
                  <<Request("copy_object", to)>>, {})
    ELSE LET del == S3FileSystem_remove_file(objects \cup {to}, from)
         IN  S3Result(del.res, del.objects,
                      <<Request("copy_object", to)>> \o del.requests, {})

S3Call(op, path, to, r) ==
    /\ steps < MaxS3Calls
    /\ s3_objects' = r.objects
    /\ s3_requests' = s3_requests \o r.requests
    /\ s3_last' = [op |-> op, path |-> path, to |-> to, res |-> r.res]
    /\ steps' = steps + 1
    /\ UNCHANGED <<mem_vars, ssh_vars>>

S3CreateFile(path) ==
    S3Call("create_file", path, <<>>, S3FileSystem_create_file(s3_objects, path))

S3CreateDir(path) ==
    S3Call("create_dir", path, <<>>, S3FileSystem_create_dir(s3_objects, path))

S3CreateDirAll(path) ==
    S3Call("create_dir_all", path, <<>>,
           S3FileSystem_create_dir_all(s3_objects, path))

S3OpenFile(path) ==
    S3Call("open_file", path, <<>>, S3FileSystem_open_file(s3_objects, path))

S3ReadDir(path) ==
    S3Call("read_dir", path, <<>>, S3FileSystem_read_dir(s3_objects, path))

S3RemoveFile(path) ==
    S3Call("remove_file", path, <<>>, S3FileSystem_remove_file(s3_objects, path))

S3RemoveDir(path) ==
    S3Call("remove_dir", path, <<>>, S3FileSystem_remove_dir(s3_objects, path))

S3RemoveDirAll(path) ==
    S3Call("remove_dir_all", path, <<>>,
           S3FileSystem_remove_dir_all(s3_objects, path))

S3Rename(from, to) ==
    S3Call("rename", from, to, S3FileSystem_rename(s3_objects, from, to))

NextS3 ==
    \/ \E path \in S3Paths : S3CreateFile(path)
    \/ \E path \in S3Paths : S3CreateDir(path)
    \/ \E path \in S3Paths : S3CreateDirAll(path)
    \/ \E path \in S3Paths : S3OpenFile(path)
    \/ \E path \in S3Paths : S3ReadDir(path)
    \/ \E path \in S3Paths : S3RemoveFile(path)
    \/ \E path \in S3Paths : S3RemoveDir(path)
    \/ \E path \in S3Paths : S3RemoveDirAll(path)
    \/ \E from \in S3Paths, to \in S3Paths : S3Rename(from, to)

SpecS3 == Init /\ [][NextS3]_vars

\* C31: a call of the S3 backend whose path (for rename: either path)
\* contains "../" returns RelativePath, sends no request to the object store
\* and leaves the set of stored objects as it was.
C31_RelativePathRejected ==
    [][(/\ steps' = steps + 1
        /\ \/ contains(s3_last'.path, ParentDir)
           \/ contains(s3_last'.to, ParentDir))
       => /\ s3_last'.res = "RelativePath"
          /\ s3_requests' = s3_requests
          /\ s3_objects' = s3_objects]_vars

C31_Witness ==
    /\ s3_last.res = "RelativePath"
    /\ s3_last.op = "rename"
    /\ ~contains(s3_last.path, ParentDir)
    /\ contains(s3_last.to, ParentDir)
    /\ s3_last.path \in s3_objects

----------------------------------------------------------------------------
(* The SSH file handle (src/src/ssh.rs).  An SSHFile holds the content it   *)
(* downloaded, the offset set by seek and the number of bytes read so far.  *)

MaxSSHContent == 3
MaxSSHCalls == 3

SSHContents == UNION {[1..n -> Bytes] : n \in 0..MaxSSHContent}
SSHBuffers == UNION {[1..n -> Bytes] : n \in 1..MaxSSHContent}

\* SSHFile::new: offset: 0, bytes_read: 0
SSHFile_new(content) == [content |-> content, offset |-> 0, bytes_read |-> 0]

\* std::io::SeekFrom
SeekFrom(whence, nb) == [whence |-> whence, nb |-> nb]

SeekArgs ==
    {SeekFrom("Start", nb) : nb \in 0..(MaxSSHContent + 1)}
    \cup {SeekFrom(w, nb) : w \in {"End", "Current"},
                            nb \in (0 - MaxSSHContent - 1)..(MaxSSHContent + 1)}

\* Variant of read that always starts at the beginning of the content.
SSHFile_read_from_start(file, n) ==
    LET nb == IF n < Len(file.content) THEN n ELSE Len(file.content)
    IN  [n |-> nb, bytes |-> SubSeq(file.content, 1, nb),
         file |-> [file EXCEPT !.bytes_read = @ + nb,
                               !.content = SubSeq(@, nb + 1, Len(@))]]

\* impl Read for SSHFile, with a buffer of n bytes: the first read starts at
\* the offset, later ones at the head of what the previous read left; the
\* content becomes what lies behind the bytes read.
SSHFile_read(file, n) ==
    IF file.bytes_read = 0 /\ file.offset >= Len(file.content)
    THEN [n |-> 0, bytes |-> <<>>, file |-> file]
    ELSE LET content_slice ==
                 IF file.bytes_read = 0
                 THEN SubSeq(file.content, file.offset + 1, Len(file.content))
                 ELSE file.content
             nb == IF n < Len(content_slice) THEN n ELSE Len(content_slice)
         IN  [n |-> nb, bytes |-> SubSeq(content_slice, 1, nb),
              file |-> [file EXCEPT
                          !.bytes_read = @ + nb,
                          !.content = SubSeq(content_slice, nb + 1,
                                             Len(content_slice))]]

\* impl Write for SSHFile: Vec::write appends the buffer.
SSHFile_write(file, buf) ==
    [n |-> Len(buf), file |-> [file EXCEPT !.content = @ \o buf]]

\* impl Seek for SSHFile: the match arms in their order.
SSHFile_seek(file, pos) ==
    LET len == Len(file.content)
        err == [res |-> "InvalidInput", pos |-> 0, file |-> file]
        ok(cursor) == [res |-> "Ok", pos |-> cursor,
                       file |-> [file EXCEPT !.offset = cursor]]
    IN  IF pos.whence = "Current" /\ file.offset + pos.nb < len
        THEN IF file.offset + pos.nb < 0 THEN err
             ELSE ok(file.offset + pos.nb)
        ELSE IF pos.whence = "End" /\ pos.nb >= 0
        THEN ok(len + pos.nb)
        ELSE IF pos.whence = "End" /\ len + pos.nb >= 0
        THEN ok(len + pos.nb)
        ELSE IF pos.whence = "Start" /\ pos.nb < len
        THEN ok(pos.nb)
        ELSE err

\* Read::read_to_end with reads of n bytes: reads until a read returns 0.
RECURSIVE read_to_end(_, _)
read_to_end(file, n) ==
    LET r == SSHFile_read(file, n)
    IN  IF r.n = 0 THEN [bytes |-> <<>>, file |-> r.file]
        ELSE LET rest == read_to_end(r.file, n)
             IN  [bytes |-> r.bytes \o rest.bytes, file |-> rest.file]

InitSSH ==
    /\ root = EmptyMap
    /\ files = [i \in FileIds |-> FreeCell]
    /\ handles = [k \in Slots |-> NoHandle]
    /\ last = [op |-> "new", path |-> <<>>, res |-> "Ok", again |-> FALSE]
    /\ steps = 0
    /\ s3_objects = {}
    /\ s3_requests = <<>>
    /\ s3_last = [op |-> "new", path |-> <<>>, to |-> <<>>, res |-> "Ok"]
    /\ \E content \in SSHContents : ssh_file = SSHFile_new(content)
    /\ ssh_last = [op |-> "new", res |-> "Ok", n |-> 0, bytes |-> <<>>]

SSHRead(n) ==
    /\ steps < MaxSSHCalls
    /\ LET r == SSHFile_read(ssh_file, n)
       IN  /\ ssh_file' = r.file
           /\ ssh_last' = [op |-> "read", res |-> "Ok", n |-> r.n,
                           bytes |-> r.bytes]
    /\ steps' = steps + 1
    /\ UNCHANGED <<mem_vars, s3_vars>>

SSHWrite(buf) ==
    /\ steps < MaxSSHCalls
    /\ Len(ssh_file.content) + Len(buf) <= MaxSSHContent
    /\ LET r == SSHFile_write(ssh_file, buf)
       IN  /\ ssh_file' = r.file
           /\ ssh_last' = [op |-> "write", res |-> "Ok", n |-> r.n,
                           bytes |-> buf]
    /\ steps' = steps + 1
    /\ UNCHANGED <<mem_vars, s3_vars>>

SSHSeek(pos) ==
    /\ steps < MaxSSHCalls
    /\ LET r == SSHFile_seek(ssh_file, pos)
       IN  /\ ssh_file' = r.file
           /\ ssh_last' = [op |-> "seek", res |-> r.res, n |-> r.pos,
                           bytes |-> <<>>]
    /\ steps' = steps + 1
    /\ UNCHANGED <<mem_vars, s3_vars>>

NextSSH ==
    \/ \E n \in 1..MaxSSHContent : SSHRead(n)
    \/ \E buf \in SSHBuffers : SSHWrite(buf)
    \/ \E pos \in SeekArgs : SSHSeek(pos)

SpecSSH == InitSSH /\ [][NextSSH]_vars

\* C32: on an SSHFile holding L bytes from which nothing has been read,
\* seek(Start(n)) with n < L returns n and seek(End(k)) with -L <= k returns
\* L + k (which may exceed L), and reading to the end afterwards yields
\* exactly the bytes from that offset to the end of the content: nothing when
\* the offset is L or more.
C32_SeekThenReadToEnd ==
    ssh_file.bytes_read = 0 =>
        LET content == ssh_file.content
            L == Len(content)
            from(offset) == IF offset >= L THEN <<>>
                            ELSE SubSeq(content, offset + 1, L)
        IN  \A chunk \in 1..MaxSSHContent :
                /\ \A n \in 0..(L - 1) :
                       LET s == SSHFile_seek(ssh_file, SeekFrom("Start", n))
                       IN  /\ s.res = "Ok"
                           /\ s.pos = n
                           /\ read_to_end(s.file, chunk).bytes = from(n)
                /\ \A k \in (0 - L)..(MaxSSHContent + 1) :
                       LET s == SSHFile_seek(ssh_file, SeekFrom("End", k))
                       IN  /\ s.res = "Ok"
                           /\ s.pos = L + k
                           /\ read_to_end(s.file, chunk).bytes = from(L + k)

C32_Witness ==
    /\ ssh_last.op = "read"
    /\ ssh_last.n > 1
    /\ ssh_file.bytes_read = ssh_last.n
    /\ ssh_file.offset > 0
    /\ ssh_file.content = <<>>

====
